---- MODULE Spec2Model ----
(***************************************************************************)
(* A model of the nutmeg-run virtual machine: the loader of main.cpp, the  *)
(* planter of parse_function_object.cpp, the heap of heap.cpp and the      *)
(* threaded interpreter of machine.cpp.                                    *)
(*                                                                         *)
(* A Cell is modelled by its bit pattern, read as a signed integer of      *)
(* CellBits bits.  The program's cells have 64 bits and its header fields  *)
(* 16; the model scales the field width down to FieldBits and keeps the    *)
(* proportion (a cell is four fields wide).  Pointers are addresses:       *)
(* handler labels, Idents, the launcher vector and the pool each live in   *)
(* their own region of the address space.                                  *)
(***************************************************************************)
EXTENDS Integers, Sequences, FiniteSets, TLC

(***************************************************************************)
(* Bounds of the model.                                                    *)
(***************************************************************************)
FieldBits == 4
MaxInstr == 3
PoolCells == 96
MaxStack == 5
MaxRStack == 14

CellBits == 4 * FieldBits
FieldMod == 2 ^ FieldBits

(***************************************************************************)
(* value.hpp: tagging.                                                     *)
(***************************************************************************)
Wrap(v) ==
    LET m == 2 ^ CellBits
        r == v % m
    IN  IF r >= m \div 2 THEN r - m ELSE r

TAG_FLOAT == 2
TAG_PTR == 1
TAG_SPECIAL == 7
TAG_MASK_3BIT == 7
SPECIAL_FALSE == 7
SPECIAL_TRUE == 15
SPECIAL_NIL == 23
SPECIAL_UNDEF == 31

make_tagged_int(value) == Wrap(value * 4)
\* A detag by a logical shift of the cell taken as uint64_t.
as_detagged_int_logical(cell) == (cell % (2 ^ CellBits)) \div 4

as_detagged_int(cell) == cell \div 4
is_tagged_int(cell) == cell % 4 = 0
is_tagged_float(cell) == cell % 4 = TAG_FLOAT
make_tagged_ptr(ptr) == IF ptr % 2 = 1 THEN ptr ELSE ptr + TAG_PTR
\* A detag that clears four low bits.
as_detagged_ptr_wide_mask(cell) == cell - (cell % 16)

as_detagged_ptr(cell) == cell - (cell % (TAG_MASK_3BIT + 1))

\* A pointer test that looks at the lowest bit only.
is_tagged_ptr_low_bit(cell) == cell % 2 = 1

is_tagged_ptr(cell) == cell % (TAG_MASK_3BIT + 1) = TAG_PTR
make_bool(value) == IF value THEN SPECIAL_TRUE ELSE SPECIAL_FALSE
is_bool(cell) == cell = SPECIAL_FALSE \/ cell = SPECIAL_TRUE
make_nil == SPECIAL_NIL
is_nil(cell) == cell = SPECIAL_NIL
make_undef == SPECIAL_UNDEF
make_raw_i64(value) == value

(***************************************************************************)
(* The address space.                                                      *)
(***************************************************************************)
HandlerBase == 8 * 64
IdentBase == 8 * 128
LauncherBase == 8 * 256
PoolBase == 8 * 512
SysBase == 8 * 32

\* instruction.hpp: enum class Opcode, in declaration order.
Opcodes ==
    << "DONE", "PUSH_INT", "PUSH_STRING", "PUSH_BOOL", "POP_LOCAL", "PUSH_LOCAL",
       "PUSH_GLOBAL", "PUSH_GLOBAL_LAZY", "LAUNCH", "CALL_GLOBAL_COUNTED",
       "CALL_GLOBAL_COUNTED_LAZY", "SYSCALL_COUNTED", "STACK_LENGTH", "CHECK_BOOL",
       "LABEL", "GOTO", "IF_NOT", "RETURN", "HALT" >>

OpcodeIndex(op) == CHOOSE i \in 1..Len(Opcodes) : Opcodes[i] = op

\* The address of the handler label L_<op> inside threaded_impl.
LabelAddr(op) == HandlerBase + 8 * OpcodeIndex(op)

\* machine.cpp 514-529: the opcodes whose label threaded_impl captures.
opcode_map_ ==
    { "PUSH_INT", "PUSH_STRING", "POP_LOCAL", "PUSH_LOCAL", "PUSH_GLOBAL",
      "PUSH_GLOBAL_LAZY", "LAUNCH", "CALL_GLOBAL_COUNTED", "CALL_GLOBAL_COUNTED_LAZY",
      "SYSCALL_COUNTED", "STACK_LENGTH", "RETURN", "HALT", "DONE" }

\* The handlers the tests take from get_opcode_map() and whose bodies are
\* not part of machine.cpp: PUSH_BOOL, GOTO, IF_NOT (and CHECK_BOOL, which
\* the planter emits).
SpecHandlers == { "PUSH_BOOL", "CHECK_BOOL", "GOTO", "IF_NOT" }

get_opcode_map == opcode_map_ \cup SpecHandlers

IdentAddr(handle) == IdentBase + 32 * handle
IsIdentAddr(a, n) == \E h \in 1..n : a = IdentAddr(h)
IdentHandle(a) == (a - IdentBase) \div 32

LauncherLen == 3
LauncherAddr(i) == LauncherBase + 8 * i
InLauncher(a) == \E i \in 0..(LauncherLen - 1) : a = LauncherAddr(i)
LauncherIdx(a) == (a - LauncherBase) \div 8 + 1

PoolAddr(index) == PoolBase + 8 * index
InPool(a) == \E i \in 0..(PoolCells - 1) : a = PoolAddr(i)
PoolIdx(a) == (a - PoolBase) \div 8 + 1

(***************************************************************************)
(* heap.cpp: the pool and the object layouts.  A heap is a record          *)
(* [cells, next_free, err]; cells is the pool's vector (1-based here).     *)
(***************************************************************************)
Pool(num_cells) == [cells |-> [i \in 1..num_cells |-> 0], next_free |-> 0, err |-> FALSE]

\* An allocation that advances the cursor before it tests the capacity.
Pool_allocate_bump_first(h, n) ==
    IF h.next_free + n > Len(h.cells)
    THEN [heap |-> [h EXCEPT !.err = TRUE, !.next_free = h.next_free + n], result |-> 0]
    ELSE [heap |-> [h EXCEPT !.next_free = h.next_free + n],
          result |-> PoolAddr(h.next_free)]

\* Pool::allocate: the result address, or bad_alloc (err) with the pool unchanged.
Pool_allocate(h, n) ==
    IF h.next_free + n > Len(h.cells)
    THEN [heap |-> [h EXCEPT !.err = TRUE], result |-> 0]
    ELSE [heap |-> [h EXCEPT !.next_free = h.next_free + n],
          result |-> PoolAddr(h.next_free)]

\* Write `vals` into the pool from address `a` on.
PoolWrite(h, a, vals) ==
    [h EXCEPT !.cells = [i \in 1..Len(h.cells) |->
        IF i >= PoolIdx(a) /\ i < PoolIdx(a) + Len(vals)
        THEN vals[i - PoolIdx(a) + 1] ELSE h.cells[i]]]

Flavour_Datakey == 0
StringBitWidth == 8
DatakeyCells == 5

\* Heap::init_datakeys lays the three root datakeys out at the start of the pool.
datakey_datakey_ == PoolAddr(0)
string_datakey_ == PoolAddr(DatakeyCells)
function_datakey_ == PoolAddr(2 * DatakeyCells)

init_datakeys(h0) ==
    LET a1 == Pool_allocate(h0, DatakeyCells)
        h1 == PoolWrite(a1.heap, a1.result, << Flavour_Datakey, 0, 0, 0, a1.result >>)
        a2 == Pool_allocate(h1, DatakeyCells)
        h2 == PoolWrite(a2.heap, a2.result, << Flavour_Datakey, StringBitWidth, 0, 0, a1.result >>)
        a3 == Pool_allocate(h2, DatakeyCells)
    IN  PoolWrite(a3.heap, a3.result, << Flavour_Datakey, 0, 0, 0, a1.result >>)

Heap == init_datakeys(Pool(PoolCells))

\* A header of two double-width fields, nlocals low and nparams high.
PackHeader_two_fields(nlocals, nparams) ==
    (nlocals % (FieldMod * FieldMod)) + (nparams % (FieldMod * FieldMod)) * FieldMod * FieldMod

\* The packed header word {nparams, nextras, nlocals, 0}, each field FieldBits wide.
PackHeader(nlocals, nparams) ==
    (nparams % FieldMod)
    + ((nlocals - nparams) % FieldMod) * FieldMod
    + (nlocals % FieldMod) * FieldMod * FieldMod

\* Heap::allocate_function: [N][L][datakey][packed][code ...]; the identity
\* pointer addresses the datakey cell.
Heap_allocate_function(h, num_instructions, nlocals, nparams) ==
    LET a == Pool_allocate(h, 4 + num_instructions)
    IN  IF a.heap.err THEN a
        ELSE [heap |-> PoolWrite(a.heap, a.result,
                         << make_tagged_int(num_instructions), make_tagged_int(0),
                            function_datakey_, Wrap(PackHeader(nlocals, nparams)) >>),
              result |-> a.result + 16]

\* sizeof(Cell), and the bytes of a string laid into cells (low byte first).
CellBytes == CellBits \div 8

RECURSIVE PackCell(_, _, _)
PackCell(bytes, from, k) ==
    IF k = 0 \/ from > Len(bytes) THEN 0
    ELSE bytes[from] + 256 * PackCell(bytes, from + 1, k - 1)

PackBytes(bytes, data_cells) ==
    [j \in 1..data_cells |-> Wrap(PackCell(bytes, (j - 1) * CellBytes + 1, CellBytes))]

\* A string allocation that records the length without the NUL.
Heap_allocate_string_strlen(h, str, char_count) ==
    LET data_cells == (char_count + CellBytes - 1) \div CellBytes
        a == Pool_allocate(h, 2 + data_cells)
    IN  IF a.heap.err THEN a
        ELSE [heap |-> PoolWrite(a.heap, a.result,
                         << char_count - 1, string_datakey_ >> \o PackBytes(str, data_cells)),
              result |-> a.result + 8]

\* Heap::allocate_string: [length][datakey][data ...]; str holds char_count
\* bytes, the terminating NUL included.
Heap_allocate_string(h, str, char_count) ==
    LET data_cells == (char_count + CellBytes - 1) \div CellBytes
        a == Pool_allocate(h, 2 + data_cells)
    IN  IF a.heap.err THEN a
        ELSE [heap |-> PoolWrite(a.heap, a.result,
                         << char_count, string_datakey_ >> \o PackBytes(str, data_cells)),
              result |-> a.result + 8]

get_function_code(obj_ptr) == obj_ptr + 16
get_function_nlocals(h, obj_ptr) ==
    (h.cells[PoolIdx(obj_ptr + 8)] \div (FieldMod * FieldMod)) % FieldMod
get_function_nparams(h, obj_ptr) == h.cells[PoolIdx(obj_ptr + 8)] % FieldMod
get_function_nextras(h, obj_ptr) == (h.cells[PoolIdx(obj_ptr + 8)] \div FieldMod) % FieldMod

is_function_object(h, cell_ptr) == h.cells[PoolIdx(cell_ptr)] = function_datakey_
is_function_value(h, cell) ==
    /\ is_tagged_ptr(cell)
    /\ InPool(as_detagged_ptr(cell))
    /\ is_function_object(h, as_detagged_ptr(cell))

\* Machine::allocate_function: allocate, then copy the code words in.
allocate_function(h, code, nlocals, nparams) ==
    LET a == Heap_allocate_function(h, Len(code), nlocals, nparams)
    IN  IF a.heap.err THEN a
        ELSE [heap |-> PoolWrite(a.heap, get_function_code(a.result), code),
              result |-> a.result]

\* Machine::allocate_string: value is a std::string, c_str() appends the NUL.
allocate_string(h, value) ==
    LET a == Heap_allocate_string(h, value \o << 0 >>, Len(value) + 1)
    IN  [heap |-> a.heap, result |-> make_tagged_ptr(a.result)]

(***************************************************************************)
(* machine.cpp: the global table.  globals_ maps a name to the handle of   *)
(* its Ident; idents holds the Ident records, which are never moved.       *)
(***************************************************************************)
NoGlobals == [n \in {} |-> 0]

\* A define that makes a new Ident for a name that has one already.
define_global_rebinds(g, name, value, lazy) ==
    [globals |-> (name :> (Len(g.idents) + 1)) @@ g.globals,
     idents  |-> Append(g.idents, [cell |-> value, lazy |-> lazy, in_progress |-> FALSE])]

\* Machine::define_global on a table g = [globals, idents].
define_global(g, name, value, lazy) ==
    IF name \notin DOMAIN g.globals
    THEN [globals |-> (name :> (Len(g.idents) + 1)) @@ g.globals,
          idents  |-> Append(g.idents, [cell |-> value, lazy |-> lazy, in_progress |-> FALSE])]
    ELSE [globals |-> g.globals,
          idents  |-> [g.idents EXCEPT ![g.globals[name]] =
                          [@ EXCEPT !.cell = value, !.lazy = lazy]]]

\* A lookup that answers undef for a name that is not defined.
lookup_global_default(g, name) ==
    IF name \notin DOMAIN g.globals THEN [err |-> FALSE, cell |-> make_undef]
    ELSE [err |-> FALSE, cell |-> g.idents[g.globals[name]].cell]

\* Machine::lookup_global: the cell, or err for the runtime_error thrown.
lookup_global(g, name) ==
    IF name \notin DOMAIN g.globals THEN [err |-> TRUE, cell |-> 0]
    ELSE [err |-> FALSE, cell |-> g.idents[g.globals[name]].cell]

\* Machine::has_global.
has_global(g, name) == name \in DOMAIN g.globals

\* Machine::lookup_ident: the Ident's address, 0 for nullptr.
lookup_ident(g, name) ==
    IF name \in DOMAIN g.globals THEN IdentAddr(g.globals[name]) ELSE 0

(***************************************************************************)
(* instruction.hpp / instruction.cpp.  An optional field is <<>> or <<v>>. *)
(***************************************************************************)
has_value(o) == o # << >>
value_of(o) == o[1]

Inst(type, index, ivalue, value, name) ==
    [type |-> type, index |-> index, ivalue |-> ivalue, value |-> value, name |-> name]

\* instruction.cpp 9-21: type string -> (strict, lazy) opcode.
string_to_opcode_map ==
    ("push.int" :> << "PUSH_INT", "PUSH_INT" >>)
    @@ ("push.string" :> << "PUSH_STRING", "PUSH_STRING" >>)
    @@ ("pop.local" :> << "POP_LOCAL", "POP_LOCAL" >>)
    @@ ("push.local" :> << "PUSH_LOCAL", "PUSH_LOCAL" >>)
    @@ ("push.global" :> << "PUSH_GLOBAL", "PUSH_GLOBAL_LAZY" >>)
    @@ ("call.global.counted" :> << "CALL_GLOBAL_COUNTED", "CALL_GLOBAL_COUNTED_LAZY" >>)
    @@ ("syscall.counted" :> << "SYSCALL_COUNTED", "SYSCALL_COUNTED" >>)
    @@ ("stack.length" :> << "STACK_LENGTH", "STACK_LENGTH" >>)
    @@ ("return" :> << "RETURN", "RETURN" >>)
    @@ ("halt" :> << "HALT", "HALT" >>)
    @@ ("done" :> << "DONE", "DONE" >>)

\* The type strings of the binding JSON the tests plant and the planter
\* has a plant_ method for, which the table of instruction.cpp lacks.
SpecTypeStrings ==
    ("push.bool" :> << "PUSH_BOOL", "PUSH_BOOL" >>)
    @@ ("check.bool" :> << "CHECK_BOOL", "CHECK_BOOL" >>)
    @@ ("label" :> << "LABEL", "LABEL" >>)
    @@ ("goto" :> << "GOTO", "GOTO" >>)
    @@ ("if.not" :> << "IF_NOT", "IF_NOT" >>)

TypeTable == string_to_opcode_map @@ SpecTypeStrings

\* string_to_opcode: the pair, or << >> when the lookup throws.
string_to_opcode(type) ==
    IF type \in DOMAIN TypeTable THEN TypeTable[type] ELSE << >>

\* An offset that counts only the return address below the locals.
calc_offset_one_slot(inst, nlocals) == nlocals - value_of(inst.index) + 1

\* Instruction::calc_offset (the caller has checked that index is present).
calc_offset(inst, nlocals) == nlocals - value_of(inst.index) + 2

(***************************************************************************)
(* parse_function_object.cpp: the planter.  A planter p is the state of    *)
(* one ParseFunctionObject: func_ (nlocals, nparams, code), label_map_,    *)
(* forward_refs_, the heap of machine_, and err once an exception has been *)
(* thrown.  Positions are the program's 0-based indexes into func.code.    *)
(* sites and jumps record what was planted where; the program does not     *)
(* keep them.                                                              *)
(***************************************************************************)
NoLabels == [l \in {} |-> 0]

ParseFunctionObject(idname, nlocals, nparams) ==
    [idname |-> idname, nlocals |-> nlocals, nparams |-> nparams, code |-> << >>,
     label_map |-> NoLabels, forward_refs |-> NoLabels, err |-> FALSE,
     heap |-> Heap, sites |-> << >>, jumps |-> << >>]

Throw(p) == [p EXCEPT !.err = TRUE]
Emit(p, cell) == [p EXCEPT !.code = Append(@, cell)]

\* A forward offset counted from the operand cell instead of the cell after it.
ForwardOffset_from_operand(label_position, ref_pos) == label_position - ref_pos

\* parse_function_object.cpp 184: the offset written into a forward reference.
ForwardOffset(label_position, ref_pos) == label_position - (ref_pos + 1)

\* parse_function_object.cpp 378: the offset of a jump to a known label.
BackwardOffset(target_pos, operand_pos) == target_pos - (operand_pos + 1)

\* plant_label: record the position, patch and erase the forward references.
plant_label(p, inst) ==
    IF ~has_value(inst.value) THEN Throw(p)
    ELSE
    LET label_name == value_of(inst.value)
        label_position == Len(p.code)
        refs == IF label_name \in DOMAIN p.forward_refs
                THEN p.forward_refs[label_name] ELSE << >>
        patched(pos) == \E k \in 1..Len(refs) : refs[k] = pos
    IN  [p EXCEPT
          !.label_map = (label_name :> label_position) @@ @,
          !.code = [i \in 1..Len(p.code) |->
                      IF patched(i - 1) THEN ForwardOffset(label_position, i - 1)
                      ELSE p.code[i]],
          !.forward_refs = [l \in (DOMAIN p.forward_refs) \ {label_name} |->
                              p.forward_refs[l]],
          !.jumps = [k \in 1..Len(p.jumps) |->
                      IF p.jumps[k].label = label_name /\ ~p.jumps[k].resolved
                      THEN [p.jumps[k] EXCEPT !.resolved = TRUE, !.target = label_position]
                      ELSE p.jumps[k]]]

\* plant_jump_instruction: the operand of GOTO and IF_NOT.
plant_jump_instruction(p, label_name) ==
    LET operand_pos == Len(p.code)
        p1 == Emit(p, 0)
    IN  IF label_name \in DOMAIN p.label_map
        THEN LET target_pos == p.label_map[label_name]
             IN  [p1 EXCEPT
                   !.code[operand_pos + 1] = BackwardOffset(target_pos, operand_pos),
                   !.jumps = Append(@, [ref |-> operand_pos, label |-> label_name,
                                        resolved |-> TRUE, target |-> target_pos])]
        ELSE [p1 EXCEPT
               !.forward_refs =
                   (label_name :> Append(IF label_name \in DOMAIN p.forward_refs
                                         THEN p.forward_refs[label_name] ELSE << >>,
                                         operand_pos)) @@ @,
               !.jumps = Append(@, [ref |-> operand_pos, label |-> label_name,
                                    resolved |-> FALSE, target |-> 0])]

plant_goto(p, inst) ==
    IF ~has_value(inst.value) THEN Throw(p)
    ELSE plant_jump_instruction(p, value_of(inst.value))

plant_if_not(p, inst) ==
    IF ~has_value(inst.value) THEN Throw(p)
    ELSE plant_jump_instruction(p, value_of(inst.value))

plant_push_int(p, inst) ==
    IF ~has_value(inst.ivalue) THEN Throw(p)
    ELSE Emit(p, make_tagged_int(value_of(inst.ivalue)))

\* A PUSH_BOOL planter that takes every spelling other than "true" as false.
plant_push_bool_lenient(p, inst) ==
    IF ~has_value(inst.value) THEN Throw(p)
    ELSE Emit(p, make_bool(value_of(inst.value) = "true"))

plant_push_bool(p, inst) ==
    IF ~has_value(inst.value) THEN Throw(p)
    ELSE IF value_of(inst.value) = "true" THEN Emit(p, make_bool(TRUE))
    ELSE IF value_of(inst.value) = "false" THEN Emit(p, make_bool(FALSE))
    ELSE Throw(p)

\* The text of the string literals the bundles use (std::string values).
StringBytes ==
    ("" :> << >>) @@ ("hi" :> << 104, 105 >>) @@ ("abc" :> << 97, 98, 99 >>)

plant_push_string(p, inst) ==
    IF ~has_value(inst.value) THEN Throw(p)
    ELSE LET a == allocate_string(p.heap, StringBytes[value_of(inst.value)])
         IN  IF a.heap.err THEN Throw([p EXCEPT !.heap = a.heap])
             ELSE Emit([p EXCEPT !.heap = a.heap], a.result)

plant_pop_local(p, inst) == Throw(p)

plant_push_local(p, inst) ==
    IF ~has_value(inst.index) THEN Throw(p)
    ELSE Emit(p, calc_offset(inst, p.nlocals))

plant_push_global(p, inst, g) ==
    IF ~has_value(inst.name) THEN Throw(p)
    ELSE IF lookup_ident(g, value_of(inst.name)) = 0 THEN Throw(p)
    ELSE Emit(p, lookup_ident(g, value_of(inst.name)))

plant_call_global_counted(p, inst, g) ==
    IF ~has_value(inst.index) THEN Throw(p)
    ELSE IF ~has_value(inst.name) THEN Throw(p)
    ELSE IF lookup_ident(g, value_of(inst.name)) = 0 THEN Throw(p)
    ELSE Emit(Emit(p, make_raw_i64(calc_offset(inst, p.nlocals))),
              lookup_ident(g, value_of(inst.name)))

\* sysfunctions.cpp: the names of sysfunctions_table, and the address of
\* the function a name maps to.
sysfunctions_table ==
    << "println", "+", "-", "*", "/", "negate", "<", ">", "===", "!==", "<=", ">=" >>
SysAddr(name) ==
    SysBase + 8 * (CHOOSE i \in 1..Len(sysfunctions_table) : sysfunctions_table[i] = name)

plant_syscall_counted(p, inst) ==
    IF ~has_value(inst.index) THEN Throw(p)
    ELSE IF ~has_value(inst.name) THEN Throw(p)
    ELSE LET p1 == Emit(p, make_raw_i64(calc_offset(inst, p.nlocals)))
         IN  IF \A i \in 1..Len(sysfunctions_table) :
                    sysfunctions_table[i] # value_of(inst.name)
             THEN Throw(p1)
             ELSE Emit(p1, SysAddr(value_of(inst.name)))

plant_stack_length(p, inst) ==
    IF ~has_value(inst.index) THEN Throw(p)
    ELSE Emit(p, make_raw_i64(calc_offset(inst, p.nlocals)))

plant_check_bool(p, inst) ==
    IF ~has_value(inst.index) THEN Throw(p)
    ELSE Emit(p, make_raw_i64(calc_offset(inst, p.nlocals)))

plant_return_halt(p, inst) == p

plant_done(p, inst, g) ==
    IF ~has_value(inst.index) THEN Throw(p)
    ELSE IF ~has_value(inst.name) THEN Throw(p)
    ELSE IF lookup_ident(g, value_of(inst.name)) = 0 THEN Throw(p)
    ELSE Emit(Emit(p, make_raw_i64(calc_offset(inst, p.nlocals))),
              lookup_ident(g, value_of(inst.name)))

\* plant_instruction for an instruction whose opcode parse() has chosen.
plant_instruction(p, inst, opcode, g) ==
    IF opcode = "LABEL" THEN plant_label(p, inst)
    ELSE IF opcode \notin get_opcode_map THEN Throw(p)
    ELSE
    LET p1 == [Emit(p, LabelAddr(opcode)) EXCEPT
                 !.sites = Append(@, [pos |-> Len(p.code), opcode |-> opcode,
                                      inst |-> inst])]
    IN  CASE opcode = "PUSH_INT" -> plant_push_int(p1, inst)
          [] opcode = "PUSH_BOOL" -> plant_push_bool(p1, inst)
          [] opcode = "PUSH_STRING" -> plant_push_string(p1, inst)
          [] opcode = "SYSCALL_COUNTED" -> plant_syscall_counted(p1, inst)
          [] opcode = "POP_LOCAL" -> plant_pop_local(p1, inst)
          [] opcode = "PUSH_LOCAL" -> plant_push_local(p1, inst)
          [] opcode \in { "PUSH_GLOBAL_LAZY", "PUSH_GLOBAL" } -> plant_push_global(p1, inst, g)
          [] opcode \in { "CALL_GLOBAL_COUNTED_LAZY", "CALL_GLOBAL_COUNTED" } ->
                plant_call_global_counted(p1, inst, g)
          [] opcode = "STACK_LENGTH" -> plant_stack_length(p1, inst)
          [] opcode = "CHECK_BOOL" -> plant_check_bool(p1, inst)
          [] opcode = "GOTO" -> plant_goto(p1, inst)
          [] opcode = "IF_NOT" -> plant_if_not(p1, inst)
          [] opcode \in { "RETURN", "HALT" } -> plant_return_halt(p1, inst)
          [] opcode = "DONE" -> plant_done(p1, inst, g)
          [] OTHER -> Throw(p1)

\* A selection that takes the lazy column for every name that is in deps.
select_opcode_any_dependency(inst, deps) ==
    LET opcodes == string_to_opcode(inst.type)
    IN  IF has_value(inst.name) /\ value_of(inst.name) \in DOMAIN deps
        THEN opcodes[2] ELSE opcodes[1]

\* parse(), lines 34-56: the strict or the lazy column of the opcode pair.
select_opcode(inst, deps) ==
    LET opcodes == string_to_opcode(inst.type)
        is_lazy == IF has_value(inst.name) /\ value_of(inst.name) \in DOMAIN deps
                   THEN deps[value_of(inst.name)] ELSE FALSE
    IN  IF is_lazy THEN opcodes[2] ELSE opcodes[1]

\* parse(), the body of the loop over the instructions (lines 29-70).
parse_instruction(p, inst, deps, g) ==
    IF string_to_opcode(inst.type) = << >> THEN Throw(p)
    ELSE plant_instruction(p, inst, select_opcode(inst, deps), g)

\* An end of pass that lets unresolved forward references through.
validate_forward_references_unchecked(p) == p

\* validate_forward_references and the HALT guard (lines 72-83).
validate_forward_references(p) ==
    IF DOMAIN p.forward_refs # {} THEN Throw(p) ELSE p

\* An end of parse() that appends no HALT.
parse_finish_no_guard(p) == validate_forward_references(p)

parse_finish(p) ==
    LET p1 == validate_forward_references(p)
    IN  IF p1.err THEN p1
        ELSE [Emit(p1, LabelAddr("HALT")) EXCEPT
                !.sites = Append(@, [pos |-> Len(p1.code), opcode |-> "HALT",
                                     inst |-> Inst("", << >>, << >>, << >>, << >>)])]

(***************************************************************************)
(* machine.cpp: the interpreter.  A machine m is the record                *)
(* [pc, os, rs, heap, idents, launcher, phase]: the program counter (an    *)
(* address), operand_stack_, return_stack_, the heap, the Idents, the      *)
(* launcher vector of execute() and how the run stands: "run", "halted"    *)
(* (HALT returned), "error" (an exception was thrown) or "ub" (the         *)
(* program left defined behaviour: a wild read, write or jump).            *)
(***************************************************************************)
Err(m) == [m EXCEPT !.phase = "error"]
UB(m) == [m EXCEPT !.phase = "ub"]

Readable(a) == InPool(a) \/ InLauncher(a)
Fetch(m, a) ==
    IF InPool(a) THEN m.heap.cells[PoolIdx(a)] ELSE m.launcher[LauncherIdx(a)]

push(m, value) == [m EXCEPT !.os = Append(@, value)]
push_return(m, value) == [m EXCEPT !.rs = Append(@, value)]
Top(s) == s[Len(s)]
Pop(s) == SubSeq(s, 1, Len(s) - 1)

\* get_local_variable: return_stack_[size - offset] as a 1-based index.
LocalIdx(m, offset) == Len(m.rs) - offset + 1
LocalOk(m, offset) == offset >= 1 /\ offset <= Len(m.rs)
get_local_variable(m, offset) == m.rs[LocalIdx(m, offset)]

\* The argument count of a call site: stack growth since the snapshot (uint64_t).
CountSince(m, offset) == Len(m.os) - as_detagged_int(get_local_variable(m, offset))

\* pop_return_frame(nlocals): frees nlocals cells of the return stack.
pop_return_frame(m, nlocals) ==
    IF nlocals > Len(m.rs) THEN UB(m)
    ELSE [m EXCEPT !.rs = SubSeq(@, 1, Len(@) - nlocals)]

\* for (i = nparams; i < nlocals; i++) push_return(make_nil());
RECURSIVE PushExtras(_, _, _)
PushExtras(m, i, nlocals) ==
    IF i < nlocals THEN PushExtras(push_return(m, make_nil), i + 1, nlocals) ELSE m

\* for (i = 0; i < nparams; i++) push_return(pop());  pop() throws on an
\* empty stack and leaves what was moved so far.
RECURSIVE MoveParams(_, _, _)
MoveParams(m, i, nparams) ==
    IF i < nparams
    THEN IF m.os = << >> THEN Err(m)
         ELSE MoveParams([m EXCEPT !.os = Pop(@), !.rs = Append(@, Top(m.os))],
                         i + 1, nparams)
    ELSE m

\* A frame build whose loop over the extras runs once too often (i <= nlocals).
build_frame_extra_local(m, ret_pc, func_ptr, nlocals, nparams) ==
    LET m1 == MoveParams(PushExtras(m, nparams, nlocals + 1), 0, nparams)
    IN  IF m1.phase # "run" THEN m1
        ELSE [push_return(push_return(m1, func_ptr), ret_pc) EXCEPT
                !.pc = get_function_code(func_ptr)]

\* The frame: extras, parameters, the function pointer, the return address;
\* then control passes to the function's code (machine.cpp 807-834, and the
\* same lines in L_CALL_GLOBAL_COUNTED and LaunchInstruction).
build_frame(m, ret_pc, func_ptr, nlocals, nparams) ==
    LET m1 == MoveParams(PushExtras(m, nparams, nlocals), 0, nparams)
    IN  IF m1.phase # "run" THEN m1
        ELSE [push_return(push_return(m1, func_ptr), ret_pc) EXCEPT
                !.pc = get_function_code(func_ptr)]

\* Machine::call_function_object.
call_function_object(m, ret_pc, func_ptr, arg_count) ==
    IF ~InPool(func_ptr) \/ ~InPool(func_ptr + 8) THEN UB(m)
    ELSE IF ~is_function_object(m.heap, func_ptr) THEN Err(m)
    ELSE IF arg_count # get_function_nparams(m.heap, func_ptr) THEN Err(m)
    ELSE build_frame(m, ret_pc, func_ptr,
                     get_function_nlocals(m.heap, func_ptr),
                     get_function_nparams(m.heap, func_ptr))

\* Machine::LaunchInstruction; pc addresses the operand of LAUNCH.
LaunchInstruction(m) ==
    LET func_obj == Fetch(m, m.pc)
    IN  IF ~InPool(func_obj) \/ ~InPool(func_obj + 8) THEN UB(m)
        ELSE build_frame(m, m.pc + 8, func_obj,
                         get_function_nlocals(m.heap, func_obj),
                         get_function_nparams(m.heap, func_obj))

(***************************************************************************)
(* The handlers of threaded_impl.  Each takes the machine with pc already  *)
(* past its handler word (goto *(pc++)->label_addr) and returns the        *)
(* machine at the next dispatch.                                           *)
(***************************************************************************)
\* L_PUSH_INT: tags the operand and pushes it.
L_PUSH_INT(m) ==
    LET value == Fetch(m, m.pc)
    IN  [push(m, make_tagged_int(value)) EXCEPT !.pc = m.pc + 8]

\* L_PUSH_STRING: pushes the operand as it is.
L_PUSH_STRING(m) == [push(m, Fetch(m, m.pc)) EXCEPT !.pc = m.pc + 8]

\* PUSH_BOOL: push(v), the handler of the literal opcodes.
L_PUSH_BOOL(m) == [push(m, Fetch(m, m.pc)) EXCEPT !.pc = m.pc + 8]

\* L_IN_PROGRESS: a label of threaded_impl that no opcode maps to.  It reads
\* its operand without stepping over it, so the next dispatch is on the
\* Ident's address.
L_IN_PROGRESS(m) ==
    LET h == IdentHandle(Fetch(m, m.pc))
    IN  IF m.idents[h].in_progress THEN Err(m)
        ELSE UB([m EXCEPT !.idents[h].in_progress = TRUE, !.pc = m.pc + 8])

\* A DONE that takes the realised value off the operand stack.
L_DONE_pops(m) ==
    LET offset == Fetch(m, m.pc)
        id == Fetch(m, m.pc + 8)
        h == IdentHandle(id)
    IN  IF ~LocalOk(m, offset) THEN UB(m)
        ELSE IF CountSince(m, offset) # 1 THEN Err([m EXCEPT !.pc = m.pc + 8])
        ELSE IF ~IsIdentAddr(id, Len(m.idents)) THEN UB(m)
        ELSE IF m.os = << >> THEN Err([m EXCEPT !.pc = m.pc + 16])
        ELSE
        LET m1 == [m EXCEPT !.pc = m.pc + 16, !.os = Pop(@),
                            !.idents[h] = [cell |-> Top(m.os), in_progress |-> FALSE,
                                           lazy |-> FALSE]]
            cell == Top(m.os)
        IN  IF is_tagged_ptr(cell) /\ ~InPool(as_detagged_ptr(cell)) THEN UB(m1)
            ELSE IF ~is_function_value(m1.heap, cell) THEN Err(m1)
            ELSE m1

\* L_DONE.
L_DONE(m) ==
    LET offset == Fetch(m, m.pc)
        id == Fetch(m, m.pc + 8)
        h == IdentHandle(id)
    IN  IF ~LocalOk(m, offset) THEN UB(m)
        ELSE IF CountSince(m, offset) # 1 THEN Err([m EXCEPT !.pc = m.pc + 8])
        ELSE IF ~IsIdentAddr(id, Len(m.idents)) THEN UB(m)
        ELSE IF m.os = << >> THEN Err([m EXCEPT !.pc = m.pc + 16])
        ELSE
        LET m1 == [m EXCEPT !.pc = m.pc + 16,
                            !.idents[h] = [cell |-> Top(m.os), in_progress |-> FALSE,
                                           lazy |-> FALSE]]
            cell == Top(m.os)
        IN  IF is_tagged_ptr(cell) /\ ~InPool(as_detagged_ptr(cell)) THEN UB(m1)
            ELSE IF ~is_function_value(m1.heap, cell) THEN Err(m1)
            ELSE m1

\* Machine::get_function_ptr followed by call_function_object, as the two
\* lazy handlers use them on a lazy Ident.
enter_thunk(m, ret_pc, cell) ==
    IF ~is_tagged_ptr(cell) THEN Err(m)
    ELSE call_function_object(m, ret_pc, as_detagged_ptr(cell), 0)

\* The handler word a lazy site is rewritten to.
StrictOf(op) ==
    IF op = "PUSH_GLOBAL_LAZY" THEN "PUSH_GLOBAL" ELSE "CALL_GLOBAL_COUNTED"

\* A promotion that steps back to the site and leaves its handler word alone.
rewrite_site_no_write(m, self, op) ==
    IF ~InPool(self) THEN UB(m) ELSE [m EXCEPT !.pc = self]

\* self->ptr = &&L_<strict>; pc = self;
rewrite_site(m, self, op) ==
    IF ~InPool(self) THEN UB(m)
    ELSE [m EXCEPT !.heap.cells[PoolIdx(self)] = LabelAddr(StrictOf(op)), !.pc = self]

\* A lazy push that clears Ident.lazy when it enters the thunk.
L_PUSH_GLOBAL_LAZY_clears_lazy(m) ==
    LET self == m.pc - 8
        id == Fetch(m, m.pc)
        h == IdentHandle(id)
        m1 == [m EXCEPT !.pc = m.pc + 8]
    IN  IF ~IsIdentAddr(id, Len(m.idents)) THEN UB(m)
        ELSE IF m.idents[h].lazy
             THEN enter_thunk([m1 EXCEPT !.idents[h].lazy = FALSE], m1.pc, m.idents[h].cell)
             ELSE rewrite_site(m1, self, "PUSH_GLOBAL_LAZY")

\* A lazy push that rewrites its site whatever Ident.lazy says.
L_PUSH_GLOBAL_LAZY_never_enters(m) ==
    LET self == m.pc - 8
        id == Fetch(m, m.pc)
        m1 == [m EXCEPT !.pc = m.pc + 8]
    IN  IF ~IsIdentAddr(id, Len(m.idents)) THEN UB(m)
        ELSE rewrite_site(m1, self, "PUSH_GLOBAL_LAZY")

\* L_PUSH_GLOBAL_LAZY.
L_PUSH_GLOBAL_LAZY(m) ==
    LET self == m.pc - 8
        id == Fetch(m, m.pc)
        m1 == [m EXCEPT !.pc = m.pc + 8]
    IN  IF ~IsIdentAddr(id, Len(m.idents)) THEN UB(m)
        ELSE IF m.idents[IdentHandle(id)].lazy
             THEN enter_thunk(m1, m1.pc, m.idents[IdentHandle(id)].cell)
             ELSE rewrite_site(m1, self, "PUSH_GLOBAL_LAZY")

\* L_PUSH_GLOBAL.
L_PUSH_GLOBAL(m) ==
    LET id == Fetch(m, m.pc)
    IN  IF ~IsIdentAddr(id, Len(m.idents)) THEN UB(m)
        ELSE [push(m, m.idents[IdentHandle(id)].cell) EXCEPT !.pc = m.pc + 8]

\* A lazy call that rewrites its handler word before it looks at Ident.lazy.
L_CALL_GLOBAL_COUNTED_LAZY_eager_rewrite(m) ==
    LET self == m.pc - 8
        id == Fetch(m, m.pc + 8)
        m1 == [m EXCEPT !.pc = m.pc + 16]
        m2 == rewrite_site(m1, self, "CALL_GLOBAL_COUNTED_LAZY")
    IN  IF ~IsIdentAddr(id, Len(m.idents)) THEN UB(m)
        ELSE IF m.idents[IdentHandle(id)].lazy
             THEN enter_thunk([m2 EXCEPT !.pc = m1.pc], m1.pc,
                              m.idents[IdentHandle(id)].cell)
             ELSE m2

\* L_CALL_GLOBAL_COUNTED_LAZY.
L_CALL_GLOBAL_COUNTED_LAZY(m) ==
    LET self == m.pc - 8
        id == Fetch(m, m.pc + 8)
        m1 == [m EXCEPT !.pc = m.pc + 16]
    IN  IF ~IsIdentAddr(id, Len(m.idents)) THEN UB(m)
        ELSE IF m.idents[IdentHandle(id)].lazy
             THEN enter_thunk(m1, m1.pc, m.idents[IdentHandle(id)].cell)
             ELSE rewrite_site(m1, self, "CALL_GLOBAL_COUNTED_LAZY")

\* L_CALL_GLOBAL_COUNTED: the count is computed and not used.
L_CALL_GLOBAL_COUNTED(m) ==
    LET offset == Fetch(m, m.pc)
        id == Fetch(m, m.pc + 8)
        m1 == [m EXCEPT !.pc = m.pc + 16]
    IN  IF ~LocalOk(m, offset) \/ ~IsIdentAddr(id, Len(m.idents)) THEN UB(m)
        ELSE
        LET cell == m.idents[IdentHandle(id)].cell
            func_ptr == as_detagged_ptr(cell)
        IN  IF ~is_tagged_ptr(cell) THEN Err(m1)
            ELSE IF ~InPool(func_ptr) \/ ~InPool(func_ptr + 8) THEN UB(m1)
            ELSE build_frame(m1, m1.pc, func_ptr,
                             get_function_nlocals(m.heap, func_ptr),
                             get_function_nparams(m.heap, func_ptr))

\* A STACK_LENGTH that stores no size: the snapshot is always 0.
L_STACK_LENGTH_zero(m) ==
    LET offset == Fetch(m, m.pc)
    IN  IF ~LocalOk(m, offset) THEN UB(m)
        ELSE [m EXCEPT !.rs[LocalIdx(m, offset)] = make_tagged_int(0),
                       !.pc = m.pc + 8]

\* L_STACK_LENGTH.
L_STACK_LENGTH(m) ==
    LET offset == Fetch(m, m.pc)
    IN  IF ~LocalOk(m, offset) THEN UB(m)
        ELSE [m EXCEPT !.rs[LocalIdx(m, offset)] = make_tagged_int(Len(m.os)),
                       !.pc = m.pc + 8]

(***************************************************************************)
(* sys_maths.cpp: the sys-functions.  A sys-function takes the machine and *)
(* nargs and returns the machine after the call.                           *)
(***************************************************************************)
BinaryIntOps == { "+", "-", "*", "/", "<", ">", "<=", ">=" }

\* int64_t division: the quotient is truncated towards zero.
TruncDiv(a, b) ==
    LET q == (IF a < 0 THEN -a ELSE a) \div (IF b < 0 THEN -b ELSE b)
    IN  IF (a < 0) = (b < 0) THEN q ELSE -q

\* The lambda each sys-function hands to binary_int_operation: its result
\* cell, or err where it throws.
operation(name, a, b) ==
    CASE name = "+" -> [err |-> FALSE, cell |-> make_tagged_int(a + b)]
      [] name = "-" -> [err |-> FALSE, cell |-> make_tagged_int(a - b)]
      [] name = "*" -> [err |-> FALSE, cell |-> make_tagged_int(a * b)]
      [] name = "/" -> IF b = 0 THEN [err |-> TRUE, cell |-> 0]
                       ELSE [err |-> FALSE, cell |-> make_tagged_int(TruncDiv(a, b))]
      [] name = "<" -> [err |-> FALSE, cell |-> IF a < b THEN SPECIAL_TRUE ELSE SPECIAL_FALSE]
      [] name = ">" -> [err |-> FALSE, cell |-> IF a > b THEN SPECIAL_TRUE ELSE SPECIAL_FALSE]
      [] name = "<=" -> [err |-> FALSE, cell |-> IF a <= b THEN SPECIAL_TRUE ELSE SPECIAL_FALSE]
      [] name = ">=" -> [err |-> FALSE, cell |-> IF a >= b THEN SPECIAL_TRUE ELSE SPECIAL_FALSE]

\* machine.peek() = result.  Machine::peek() is "Cell Machine::peek() const":
\* it returns a copy of operand_stack_.back(), and the assignment stores
\* into that copy.
peek_assign(m, result) == m

\* binary_int_operation: n = pop(), m = peek(), the type check, the
\* operation, then machine.peek() = result.
binary_int_operation(m, nargs, name) ==
    IF nargs # 2 THEN Err(m)
    ELSE IF m.os = << >> THEN Err(m)
    ELSE
    LET n == Top(m.os)
        m1 == [m EXCEPT !.os = Pop(@)]
    IN  IF m1.os = << >> THEN Err(m1)
        ELSE IF ~is_tagged_int(n) \/ ~is_tagged_int(Top(m1.os)) THEN Err(m1)
        ELSE LET r == operation(name, as_detagged_int(Top(m1.os)), as_detagged_int(n))
             IN  IF r.err THEN Err(m1) ELSE peek_assign(m1, r.cell)

\* unary_int_operation, as sys_negate uses it: its check is nargs != 2.
unary_int_operation(m, nargs) ==
    IF nargs # 2 THEN Err(m)
    ELSE IF m.os = << >> THEN Err(m)
    ELSE IF ~is_tagged_int(Top(m.os)) THEN Err(m)
    ELSE peek_assign(m, make_tagged_int(-as_detagged_int(Top(m.os))))

\* The sys-functions of sys_maths.cpp that sysfunctions_table names.
SysMaths == BinaryIntOps \cup { "negate" }

sys_function(m, name, nargs) ==
    IF name = "negate" THEN unary_int_operation(m, nargs)
    ELSE binary_int_operation(m, nargs, name)

\* L_SYSCALL_COUNTED: count = size - snapshot, sys_function(*this, count).
L_SYSCALL_COUNTED(m) ==
    LET offset == Fetch(m, m.pc)
        fn == Fetch(m, m.pc + 8)
        m1 == [m EXCEPT !.pc = m.pc + 16]
    IN  IF ~LocalOk(m, offset) THEN UB(m)
        ELSE IF \A name \in SysMaths : fn # SysAddr(name) THEN UB(m1)
        ELSE sys_function(m1, CHOOSE name \in SysMaths : fn = SysAddr(name),
                          CountSince(m, offset))

\* A RETURN that pops the return address and the function pointer and
\* leaves the locals on the return stack.
L_RETURN_keeps_locals(m) ==
    IF Len(m.rs) < 1 THEN Err(m)
    ELSE IF Len(m.rs) < 2 THEN Err([m EXCEPT !.rs = << >>])
    ELSE
    LET return_cell == m.rs[Len(m.rs)]
        func_obj == m.rs[Len(m.rs) - 1]
        m1 == [m EXCEPT !.rs = SubSeq(@, 1, Len(@) - 2)]
    IN  IF ~InPool(func_obj) \/ ~InPool(func_obj + 8) THEN UB(m1)
        ELSE [m1 EXCEPT !.pc = return_cell]

\* L_RETURN.
L_RETURN(m) ==
    IF Len(m.rs) < 1 THEN Err(m)
    ELSE IF Len(m.rs) < 2 THEN Err([m EXCEPT !.rs = << >>])
    ELSE
    LET return_cell == m.rs[Len(m.rs)]
        func_obj == m.rs[Len(m.rs) - 1]
        m1 == [m EXCEPT !.rs = SubSeq(@, 1, Len(@) - 2)]
    IN  IF ~InPool(func_obj) \/ ~InPool(func_obj + 8) THEN UB(m1)
        ELSE [pop_return_frame(m1, get_function_nlocals(m.heap, func_obj)) EXCEPT
                !.pc = return_cell]

\* L_HALT: threaded_impl returns.
L_HALT(m) == [m EXCEPT !.phase = "halted"]

\* L_LAUNCH.
L_LAUNCH(m) == LaunchInstruction(m)

\* GOTO rel: pc += rel, counted from the cell after the operand.
L_GOTO(m) ==
    LET rel == Fetch(m, m.pc)
    IN  [m EXCEPT !.pc = m.pc + 8 + 8 * rel]

\* IF_NOT rel: v = pop(); if v == FALSE then pc += rel.
L_IF_NOT(m) ==
    LET rel == Fetch(m, m.pc)
    IN  IF m.os = << >> THEN Err([m EXCEPT !.pc = m.pc + 8])
        ELSE IF Top(m.os) = SPECIAL_FALSE
             THEN [m EXCEPT !.os = Pop(@), !.pc = m.pc + 8 + 8 * rel]
             ELSE [m EXCEPT !.os = Pop(@), !.pc = m.pc + 8]

\* PUSH_LOCAL and POP_LOCAL: the bodies are commented out; what is left
\* dispatches the word under pc and reads no operand.
L_PUSH_LOCAL(m) == m
L_POP_LOCAL(m) == m

\* The number of operand cells each handler reads before it dispatches.
OperandCells(op) ==
    IF op \in { "RETURN", "HALT", "PUSH_LOCAL", "POP_LOCAL" } THEN 0
    ELSE IF op \in { "DONE", "CALL_GLOBAL_COUNTED", "CALL_GLOBAL_COUNTED_LAZY",
                     "SYSCALL_COUNTED" } THEN 2
    ELSE 1

\* One handler, from the dispatch of its handler word at m.pc.
RunHandler(op, m) ==
    LET m0 == [m EXCEPT !.pc = m.pc + 8]
    IN  IF \E k \in 0..(OperandCells(op) - 1) : ~Readable(m0.pc + 8 * k) THEN UB(m0)
        ELSE CASE op = "PUSH_INT" -> L_PUSH_INT(m0)
               [] op = "PUSH_BOOL" -> L_PUSH_BOOL(m0)
               [] op = "PUSH_STRING" -> L_PUSH_STRING(m0)
               [] op = "DONE" -> L_DONE(m0)
               [] op = "PUSH_GLOBAL_LAZY" -> L_PUSH_GLOBAL_LAZY(m0)
               [] op = "PUSH_GLOBAL" -> L_PUSH_GLOBAL(m0)
               [] op = "CALL_GLOBAL_COUNTED_LAZY" -> L_CALL_GLOBAL_COUNTED_LAZY(m0)
               [] op = "CALL_GLOBAL_COUNTED" -> L_CALL_GLOBAL_COUNTED(m0)
               [] op = "STACK_LENGTH" -> L_STACK_LENGTH(m0)
               [] op = "RETURN" -> L_RETURN(m0)
               [] op = "HALT" -> L_HALT(m0)
               [] op = "LAUNCH" -> L_LAUNCH(m0)
               [] op = "GOTO" -> L_GOTO(m0)
               [] op = "IF_NOT" -> L_IF_NOT(m0)
               [] op = "PUSH_LOCAL" -> L_PUSH_LOCAL(m0)
               [] op = "SYSCALL_COUNTED" -> L_SYSCALL_COUNTED(m0)

\* The handlers the bundles explored here can reach.
Handlers ==
    { "PUSH_INT", "PUSH_BOOL", "PUSH_STRING", "DONE", "PUSH_GLOBAL_LAZY", "PUSH_GLOBAL",
      "CALL_GLOBAL_COUNTED_LAZY", "CALL_GLOBAL_COUNTED", "STACK_LENGTH", "RETURN",
      "HALT", "LAUNCH", "GOTO", "IF_NOT", "PUSH_LOCAL", "SYSCALL_COUNTED" }

(***************************************************************************)
(* The bundles explored.  A bundle maps the name of a binding to           *)
(* [lazy, nlocals, nparams, instructions]; main is the entry point.        *)
(***************************************************************************)
MaxArgs == 2
MaxLocals == 2

None == << >>
Some(v) == << v >>

PushInt(v) == Inst("push.int", None, Some(v), None, None)
PushBool(b) == Inst("push.bool", None, None, Some(b), None)
Goto(l) == Inst("goto", None, None, Some(l), None)
IfNot(l) == Inst("if.not", None, None, Some(l), None)
Label(l) == Inst("label", None, None, Some(l), None)
StackLength(i) == Inst("stack.length", Some(i), None, None, None)
PushGlobal(n) == Inst("push.global", None, None, None, Some(n))
CallGlobal(i, n) == Inst("call.global.counted", Some(i), None, None, Some(n))
Done(i, n) == Inst("done", Some(i), None, None, Some(n))
Return == Inst("return", None, None, None, None)

PushString(s) == Inst("push.string", None, None, Some(s), None)
Syscall(i, n) == Inst("syscall.counted", Some(i), None, None, Some(n))
PushLocal(i) == Inst("push.local", Some(i), None, None, None)
PopLocal(i) == Inst("pop.local", Some(i), None, None, None)

\* A binding of the bundle file: its value is a function object.
Binding(lazy, nlocals, nparams, instructions) ==
    [kind |-> "function", lazy |-> lazy, nlocals |-> nlocals, nparams |-> nparams,
     instructions |-> instructions]

\* A global the host defines through Machine::define_global with a value
\* of its own: undef, a tagged integer or a string object.
HostValue(kind, text, lazy) ==
    [kind |-> kind, text |-> text, lazy |-> lazy, nlocals |-> 0, nparams |-> 0,
     instructions |-> << >>]

SeqsUpTo(S, n) == UNION { [1..k -> S] : k \in 0..n }

RECURSIVE Repeat(_, _)
Repeat(x, n) == IF n = 0 THEN << >> ELSE << x >> \o Repeat(x, n - 1)

\* Jump bundles: one strict binding main over the jump instructions.
JumpAlphabet ==
    { PushInt(1), PushBool("false"), PushBool("true"), Goto("L"), IfNot("L"), Label("L") }

ForwardJump ==
    << PushInt(1), Goto("skip"), PushInt(999), Label("skip"), PushInt(2) >>
BackwardJump ==
    << PushInt(10), Label("target"), PushInt(20), Goto("end"), Label("end") >>
ConditionalSkip(b) ==
    << PushBool(b), IfNot("skip"), PushInt(99), Label("skip"), PushInt(42) >>
LiteralEcho == << PushInt(42), PushInt(100) >>

JumpBundles ==
    { ("main" :> Binding(FALSE, 0, 0, is)) :
        is \in SeqsUpTo(JumpAlphabet, MaxInstr)
               \cup { ForwardJump, BackwardJump, ConditionalSkip("false"),
                      ConditionalSkip("true"), LiteralEcho } }

\* Call bundles: main pushes k integers and calls the strict function f.
CalleeBodies ==
    { << Return >>, << PushInt(2), Return >>, << StackLength(0), Return >>,
      << StackLength(2), Return >> }

CallBundles ==
    { ("main" :> Binding(FALSE, 1, 0,
                    << StackLength(0) >> \o [j \in 1..k |-> PushInt(j)]
                       \o << CallGlobal(0, "f") >> \o tail))
      @@ ("f" :> Binding(FALSE, nl, np, body)) :
        k \in 0..MaxArgs, nl \in 0..MaxLocals, np \in 0..MaxArgs,
        body \in CalleeBodies, tail \in { << >>, << Return >> } }

\* Host bundles: main calls or pushes the global v, which the host has
\* defined with a value that is not a function object.
HostMains ==
    { << StackLength(0), CallGlobal(0, "v"), Return >>, << PushGlobal("v"), Return >> }

HostBundles ==
    { ("main" :> Binding(FALSE, 1, 0, is)) @@ ("v" :> v) :
        is \in HostMains,
        v \in { HostValue(kind, "", lazy) : kind \in { "undef", "int", "string" },
                                            lazy \in BOOLEAN }
              \cup { HostValue("string", "hi", lazy) : lazy \in BOOLEAN } }

\* String bundles: main pushes string literals.
StringBundles ==
    { ("main" :> Binding(FALSE, 0, 0, is)) :
        is \in { << PushString(s) >> : s \in DOMAIN StringBytes }
               \cup { << PushString(s), PushString(t) >> : s, t \in DOMAIN StringBytes } }

\* Lazy bundles: main uses the lazy binding x, whose thunk may name the
\* strict function f.
LazyMains ==
    { << PushGlobal("x"), Return >>,
      << Label("L"), PushGlobal("x"), Goto("L") >>,
      << Label("L"), StackLength(0), CallGlobal(0, "x"), Goto("L") >> }

Thunks ==
    { Binding(TRUE, 1, 0, << StackLength(0), PushGlobal("f"), Done(0, "x"), Return >>),
      Binding(TRUE, 1, 0, << StackLength(0), PushInt(7), Done(0, "x"), Return >>),
      Binding(TRUE, 1, 0, << StackLength(0), Done(0, "x"), Return >>),
      Binding(TRUE, 1, 0, << StackLength(0), PushGlobal("f"), Done(0, "f"), Return >>),
      Binding(TRUE, 1, 0, << PushGlobal("x"), Return >>),
      Binding(TRUE, 0, 0, << PushGlobal("f"), Return >>),
      Binding(TRUE, 1, 1, << Return >>) }

LazyBundles ==
    { ("main" :> Binding(FALSE, 1, 0, is)) @@ ("x" :> thunk)
      @@ ("f" :> Binding(FALSE, 0, 0, << Return >>)) :
        is \in LazyMains, thunk \in Thunks }

\* Malformed bundles: main holds one instruction the planter must refuse,
\* alone or next to a well-formed one.
WellFormed == { PushInt(1), PushString("hi"), Syscall(0, "+"), Return }

MalformedAlphabet ==
    { Inst("bogus", None, None, None, None),
      Inst("launch", None, None, None, None),
      Inst("push.int", None, None, None, None),
      Inst("push.int", Some(1), None, None, None),
      Inst("push.bool", None, None, None, None),
      Inst("push.string", None, None, None, None),
      Inst("push.local", None, None, None, None),
      Inst("push.global", None, None, None, None),
      Inst("call.global.counted", None, None, None, Some("main")),
      Inst("call.global.counted", Some(0), None, None, None),
      Inst("syscall.counted", None, None, None, Some("+")),
      Inst("syscall.counted", Some(0), None, None, None),
      Inst("stack.length", None, None, None, None),
      Inst("check.bool", None, None, None, None),
      Inst("label", None, None, None, None),
      Inst("goto", None, None, None, None),
      Inst("if.not", None, None, None, None),
      Inst("done", None, None, None, Some("main")),
      Inst("done", Some(0), None, None, None),
      PushGlobal("nosuch"), CallGlobal(0, "nosuch"), Done(0, "nosuch"),
      Syscall(0, "nosuch"), Syscall(0, "%"),
      PushBool("maybe"), PushBool("True"), PushBool("") }

MalformedBundles ==
    { ("main" :> Binding(FALSE, 1, 0, is)) :
        is \in { << b >> : b \in MalformedAlphabet }
               \cup { << g, b >> : g \in WellFormed, b \in MalformedAlphabet }
               \cup { << b, g >> : g \in WellFormed, b \in MalformedAlphabet } }

\* Pool-filling bundles: main is as long as the pool can hold (20 cells go
\* to the datakeys, the function header and the closing HALT), one
\* instruction longer, or allocates strings until the pool is full.
PoolFillingBundles ==
    { ("main" :> Binding(FALSE, 0, 0, is)) :
        is \in { Repeat(PushInt(1), (PoolCells - 20) \div 2),
                 Repeat(PushInt(1), (PoolCells - 20) \div 2 + 1),
                 Repeat(PushString("abc"), PoolCells \div 2) } }

\* Local bundles: main reads its local variables.
LocalBundles ==
    { ("main" :> Binding(FALSE, 2, 0, is)) :
        is \in { << PushLocal(0), Return >>,
                 << StackLength(0), PushLocal(0), Return >>,
                 << PushInt(1), PushLocal(1), PushInt(2) >>,
                 << PushInt(1), PopLocal(0), PushLocal(0), Return >> } }

\* Mutual bundles: main names f, and f and g name each other.
MutualBundles ==
    { ("main" :> Binding(FALSE, 0, 0, << PushGlobal("f"), Return >>))
      @@ ("f" :> Binding(lazy, 1, 0, << StackLength(0), CallGlobal(0, "g"), Return >>))
      @@ ("g" :> Binding(FALSE, 1, 0, << StackLength(0), CallGlobal(0, "f"), Return >>)) :
        lazy \in BOOLEAN }

\* Syscall bundles: main takes a snapshot after s pushes, pushes k more
\* cells and calls a sys-function of sys_maths.cpp.
SyscallArguments ==
    { << >>, << PushInt(1) >>, << PushInt(3), PushInt(1) >>, << PushInt(1), PushInt(0) >>,
      << PushInt(1), PushBool("true") >>, << PushInt(1), PushInt(2), PushInt(3) >> }

SyscallBundles ==
    { ("main" :> Binding(FALSE, 1, 0,
                    before \o << StackLength(0) >> \o args \o << Syscall(0, fn), Return >>)) :
        before \in { << >>, << PushInt(2) >> }, args \in SyscallArguments, fn \in SysMaths }

\* Index bundles: a stack.length whose index is not one of the function's
\* locals, in main and in a function main calls.
OutsideIndexes == { -2, -1, 1, 2 }

IndexBundles ==
    { ("main" :> Binding(FALSE, 1, 0, << StackLength(i), Return >>)) : i \in OutsideIndexes }
    \cup { ("main" :> Binding(FALSE, 1, 0, << StackLength(0), CallGlobal(0, "f"), Return >>))
            @@ ("f" :> Binding(FALSE, 1, 0, << StackLength(i), Return >>)) :
              i \in OutsideIndexes }

Bundles ==
    JumpBundles \cup CallBundles \cup LazyBundles \cup HostBundles \cup StringBundles
    \cup MalformedBundles \cup PoolFillingBundles \cup LocalBundles \cup MutualBundles
    \cup SyscallBundles \cup IndexBundles

\* The orders in which an unordered_map over the names may iterate.
Orders(names) ==
    { o \in [1..Cardinality(names) -> names] : \A i, j \in DOMAIN o : i # j => o[i] # o[j] }

\* BundleReader::get_dependencies: name -> lazy.
get_dependencies(b) == [n \in DOMAIN b |-> b[n].lazy]

(***************************************************************************)
(* The state.                                                              *)
(***************************************************************************)
VARIABLES
    bundle,          \* the bundle file being run
    order,           \* the iteration order of deps
    phase,           \* "declare", "plant", "ready", "run", "halted", "error", "ub"
    li,              \* the loader's position in deps
    ii,              \* the planter's position in the instructions (0: not begun)
    globals_,        \* Machine::globals_
    idents,          \* the Ident records
    heap_,           \* Machine::heap_
    planter,         \* the ParseFunctionObject at work
    launcher,        \* the launcher vector of execute()
    pc,              \* threaded_impl's pc
    operand_stack_,  \* Machine::operand_stack_
    return_stack_,   \* Machine::return_stack_
    last,            \* what the last handler was and what it saw
    frames,          \* the frames built and not yet returned from
    planted,         \* handler-word address -> the opcode planted there
    evaluated,       \* the Idents a DONE has completed
    objects,         \* the heap objects allocated so far and their blocks
    host             \* a host program driving one component through its interface

vars ==
    << bundle, order, phase, li, ii, globals_, idents, heap_, planter, launcher, pc,
       operand_stack_, return_stack_, last, frames, planted, evaluated, objects, host >>

\* No host program: the run of a bundle file by main.
NoHost == [unit |-> "main"]

NoFrame ==
    [kind |-> "none", ident |-> 0, rs_before |-> 0, os_before |-> << >>,
     nlocals |-> 0, nparams |-> 0, op |-> "none", site |-> 0]

NoLast ==
    [op |-> "none", site |-> 0, ident |-> 0, was_lazy |-> FALSE, count |-> 0,
     callee_nparams |-> 0, os |-> << >>, rs |-> << >>, frame |-> NoFrame,
     nframes |-> 0, sys |-> "none", snap |-> [i \in 1..MaxRStack |-> -1]]

Init ==
    /\ bundle \in Bundles
    /\ order \in Orders(DOMAIN bundle)
    /\ phase = "declare"
    /\ li = 1
    /\ ii = 0
    /\ globals_ = NoGlobals
    /\ idents = << >>
    /\ heap_ = Heap
    /\ planter = ParseFunctionObject("", 0, 0)
    /\ launcher = << 0, 0, 0 >>
    /\ pc = 0
    /\ operand_stack_ = << >>
    /\ return_stack_ = << >>
    /\ last = NoLast
    /\ frames = << >>
    /\ planted = [a \in {} |-> ""]
    /\ evaluated = {}
    /\ objects = {}
    /\ host = NoHost

(***************************************************************************)
(* main.cpp: the loader.                                                   *)
(***************************************************************************)
\* The record kept of an allocation: the identity pointer returned, the
\* block Pool::allocate handed out (from the cursor of h to that of h1), the
\* length asked for (code words or bytes) and the code words copied in.
Object(kind, ptr, h, h1, n, code) ==
    [kind |-> kind, ptr |-> ptr, from |-> PoolAddr(h.next_free),
     to |-> PoolAddr(h1.next_free), n |-> n, code |-> code]

GlobalTable == [globals |-> globals_, idents |-> idents]

\* A loader without a first wave: it passes over the names and declares none.
DeclareGlobal_none ==
    /\ phase = "declare"
    /\ IF li = Len(order)
       THEN phase' = "plant" /\ li' = 1
       ELSE phase' = phase /\ li' = li + 1
    /\ UNCHANGED << host, bundle, order, ii, globals_, idents, heap_, planter, launcher,
                    pc, operand_stack_, return_stack_, last, frames, planted, evaluated,
                    objects >>

\* First wave (main.cpp 121-128): one define_global(name, undef, false).
DeclareGlobal ==
    /\ phase = "declare"
    /\ LET g == define_global(GlobalTable, order[li], make_undef, FALSE)
       IN  /\ globals_' = g.globals
           /\ idents' = g.idents
    /\ IF li = Len(order)
       THEN phase' = "plant" /\ li' = 1
       ELSE phase' = phase /\ li' = li + 1
    /\ UNCHANGED << host, bundle, order, ii, heap_, planter, launcher, pc, operand_stack_,
                    return_stack_, last, frames, planted, evaluated, objects >>

\* Second wave: Machine::parse_function_object constructs the planter and
\* parse() reads nlocals and nparams.
BeginBinding ==
    /\ phase = "plant"
    /\ bundle[order[li]].kind = "function"
    /\ ii = 0
    /\ planter' = [ParseFunctionObject(order[li], bundle[order[li]].nlocals,
                                       bundle[order[li]].nparams)
                      EXCEPT !.heap = heap_]
    /\ ii' = 1
    /\ UNCHANGED << host, bundle, order, phase, li, globals_, idents, heap_, launcher, pc,
                    operand_stack_, return_stack_, last, frames, planted, evaluated,
                    objects >>

\* One turn of parse()'s loop over the instructions.
PlantInstruction ==
    /\ phase = "plant"
    /\ ii >= 1
    /\ ii <= Len(bundle[order[li]].instructions)
    /\ LET p == parse_instruction(planter, bundle[order[li]].instructions[ii],
                                  get_dependencies(bundle), GlobalTable)
       IN  /\ planter' = p
           /\ heap_' = p.heap
           /\ phase' = IF p.err THEN "error" ELSE phase
           /\ objects' =
                 IF p.heap.next_free > heap_.next_free
                 THEN objects \cup
                        { Object("string", as_detagged_ptr(Top(p.code)), heap_, p.heap,
                                 Len(StringBytes[value_of(
                                        bundle[order[li]].instructions[ii].value)]) + 1,
                                 << >>) }
                 ELSE objects
    /\ ii' = ii + 1
    /\ UNCHANGED << host, bundle, order, li, globals_, idents, launcher, pc,
                    operand_stack_, return_stack_, last, frames, planted, evaluated >>

\* The handler words of a planted function, by their pool address.
SitesAt(p, func_obj) ==
    [a \in { get_function_code(func_obj) + 8 * p.sites[k].pos : k \in 1..Len(p.sites) } |->
        LET k == CHOOSE k \in 1..Len(p.sites) :
                    a = get_function_code(func_obj) + 8 * p.sites[k].pos
        IN  p.sites[k].opcode]

\* The end of parse(), then allocate_function and define_global
\* (main.cpp 135-137).
EndBinding ==
    /\ phase = "plant"
    /\ ii = Len(bundle[order[li]].instructions) + 1
    /\ LET p == parse_finish(planter)
           a == allocate_function(heap_, p.code, p.nlocals, p.nparams)
           g == define_global(GlobalTable, order[li], make_tagged_ptr(a.result),
                              bundle[order[li]].lazy)
       IN  IF p.err
           THEN /\ phase' = "error"
                /\ planter' = p
                /\ UNCHANGED << li, ii, globals_, idents, heap_, planted, objects >>
           ELSE IF a.heap.err
           THEN /\ phase' = "error"
                /\ planter' = [p EXCEPT !.heap = a.heap]
                /\ heap_' = a.heap
                /\ UNCHANGED << li, ii, globals_, idents, planted, objects >>
           ELSE /\ planter' = [p EXCEPT !.heap = a.heap]
                /\ heap_' = a.heap
                /\ objects' = objects \cup
                      { Object("function", a.result, heap_, a.heap, Len(p.code), p.code) }
                /\ globals_' = g.globals
                /\ idents' = g.idents
                /\ planted' = SitesAt(p, a.result) @@ planted
                /\ ii' = 0
                /\ IF li = Len(order)
                   THEN phase' = "ready" /\ li' = li
                   ELSE phase' = phase /\ li' = li + 1
    /\ UNCHANGED << host, bundle, order, launcher, pc, operand_stack_, return_stack_, last,
                    frames, evaluated >>

\* The host defines a global with a value of its own, as the tests do:
\* allocate_string for a string, then define_global(name, value, lazy).
HostDefineGlobal ==
    /\ phase = "plant"
    /\ bundle[order[li]].kind # "function"
    /\ LET kind == bundle[order[li]].kind
           a == IF kind = "string"
                THEN allocate_string(heap_, StringBytes[bundle[order[li]].text])
                ELSE [heap |-> heap_,
                      result |-> IF kind = "int" THEN make_tagged_int(42) ELSE make_undef]
           g == define_global(GlobalTable, order[li], a.result, bundle[order[li]].lazy)
       IN  /\ heap_' = a.heap
           /\ globals_' = g.globals
           /\ idents' = g.idents
           /\ objects' =
                 IF kind = "string"
                 THEN objects \cup
                        { Object("string", as_detagged_ptr(a.result), heap_, a.heap,
                                 Len(StringBytes[bundle[order[li]].text]) + 1, << >>) }
                 ELSE objects
    /\ IF li = Len(order)
       THEN phase' = "ready" /\ li' = li
       ELSE phase' = phase /\ li' = li + 1
    /\ UNCHANGED << host, bundle, order, ii, planter, launcher, pc, operand_stack_,
                    return_stack_, last, frames, planted, evaluated >>

\* Machine::get_global_cell_ptr.
get_global_cell_ptr(g, name) == as_detagged_ptr(g.idents[g.globals[name]].cell)

\* main.cpp 148-152 and Machine::execute up to the first dispatch.
Execute ==
    /\ phase = "ready"
    /\ launcher' = << LabelAddr("LAUNCH"), get_global_cell_ptr(GlobalTable, "main"),
                      LabelAddr("HALT") >>
    /\ pc' = LauncherAddr(0)
    /\ phase' = "run"
    /\ UNCHANGED << host, bundle, order, li, ii, globals_, idents, heap_, planter,
                    operand_stack_, return_stack_, last, frames, planted, evaluated,
                    objects >>

(***************************************************************************)
(* threaded_impl: one step is one handler, from the dispatch of its        *)
(* handler word to the next dispatch.                                      *)
(***************************************************************************)
M ==
    [pc |-> pc, os |-> operand_stack_, rs |-> return_stack_, heap |-> heap_,
     idents |-> idents, launcher |-> launcher, phase |-> phase]

IdentOps ==
    { "PUSH_GLOBAL", "PUSH_GLOBAL_LAZY", "CALL_GLOBAL_COUNTED",
      "CALL_GLOBAL_COUNTED_LAZY", "DONE" }
LazyOps == { "PUSH_GLOBAL_LAZY", "CALL_GLOBAL_COUNTED_LAZY" }

\* The Ident a site names (0: none).
SiteIdent(m, op) ==
    LET a == m.pc + 8 * OperandCells(op)
    IN  IF op \in IdentOps /\ Readable(a) /\ IsIdentAddr(Fetch(m, a), Len(m.idents))
        THEN IdentHandle(Fetch(m, a)) ELSE 0

\* The argument count a counted site derives (-1: none).
SiteCount(m, op) ==
    IF op \in { "CALL_GLOBAL_COUNTED", "DONE", "SYSCALL_COUNTED" } /\ Readable(m.pc + 8)
       /\ LocalOk(m, Fetch(m, m.pc + 8))
    THEN CountSince(m, Fetch(m, m.pc + 8)) ELSE -1

\* The sys-function a SYSCALL_COUNTED site invokes ("none": none).
SiteSys(m, op) ==
    IF op = "SYSCALL_COUNTED" /\ SiteCount(m, op) # -1 /\ Readable(m.pc + 16)
       /\ \E name \in SysMaths : Fetch(m, m.pc + 16) = SysAddr(name)
    THEN CHOOSE name \in SysMaths : Fetch(m, m.pc + 16) = SysAddr(name)
    ELSE "none"

\* History: for each return-stack cell, the operand-stack size at the last
\* STACK_LENGTH that wrote it while its frame has been live (-1: none).
Snapshots(m, op, r) ==
    [i \in 1..MaxRStack |->
        IF i > Len(r.rs) THEN -1
        ELSE IF op = "STACK_LENGTH" /\ r.phase = "run"
                /\ i = LocalIdx(m, Fetch(m, m.pc + 8))
        THEN Len(m.os)
        ELSE last.snap[i]]

\* The function a site enters.
Callee(m, op) ==
    IF op = "LAUNCH" THEN Fetch(m, m.pc + 8)
    ELSE as_detagged_ptr(m.idents[SiteIdent(m, op)].cell)

EntersFrame(m, op, r) ==
    /\ r.phase = "run"
    /\ \/ op \in { "LAUNCH", "CALL_GLOBAL_COUNTED" }
       \/ op \in LazyOps /\ m.idents[SiteIdent(m, op)].lazy /\ Len(r.rs) > Len(m.rs)

FrameOf(m, op) ==
    [kind |-> IF op = "LAUNCH" THEN "launch" ELSE IF op \in LazyOps THEN "thunk" ELSE "call",
     ident |-> SiteIdent(m, op),
     rs_before |-> Len(m.rs),
     os_before |-> m.os,
     nlocals |-> get_function_nlocals(m.heap, Callee(m, op)),
     nparams |-> get_function_nparams(m.heap, Callee(m, op)),
     op |-> op, site |-> m.pc]

Step(op) ==
    /\ Readable(pc)
    /\ Fetch(M, pc) = LabelAddr(op)
    /\ LET m == M
           r == RunHandler(op, m)
           h == SiteIdent(m, op)
           enters == EntersFrame(m, op, r)
           leaves == op = "RETURN" /\ r.phase = "run" /\ frames # << >>
           frame == IF enters THEN FrameOf(m, op)
                    ELSE IF op = "RETURN" /\ frames # << >> THEN Top(frames)
                    ELSE NoFrame
       IN  /\ Len(r.os) <= MaxStack
           /\ Len(r.rs) <= MaxRStack
           /\ pc' = r.pc
           /\ operand_stack_' = r.os
           /\ return_stack_' = r.rs
           /\ heap_' = r.heap
           /\ idents' = r.idents
           /\ phase' = r.phase
           /\ last' = [op |-> op, site |-> m.pc, ident |-> h,
                       was_lazy |-> (h # 0 /\ m.idents[h].lazy),
                       count |-> SiteCount(m, op),
                       callee_nparams |->
                           IF op = "CALL_GLOBAL_COUNTED" /\ h # 0
                              /\ is_function_value(m.heap, m.idents[h].cell)
                           THEN get_function_nparams(m.heap, Callee(m, op)) ELSE -1,
                       os |-> m.os, rs |-> m.rs, frame |-> frame,
                       nframes |-> Len(frames), sys |-> SiteSys(m, op),
                       snap |-> Snapshots(m, op, r)]
           /\ frames' = IF enters THEN Append(frames, frame)
                        ELSE IF leaves THEN Pop(frames) ELSE frames
           /\ evaluated' = IF op = "DONE" /\ r.phase = "run" /\ h # 0
                           THEN evaluated \cup { h } ELSE evaluated
    /\ UNCHANGED << host, bundle, order, li, ii, globals_, planter, launcher, planted,
                    objects >>

Launch == phase = "run" /\ Step("LAUNCH")
PushIntStep == phase = "run" /\ Step("PUSH_INT")
PushBoolStep == phase = "run" /\ Step("PUSH_BOOL")
PushStringStep == phase = "run" /\ Step("PUSH_STRING")
PushGlobalStep == phase = "run" /\ Step("PUSH_GLOBAL")
PushGlobalLazyStep == phase = "run" /\ Step("PUSH_GLOBAL_LAZY")
CallGlobalCountedStep == phase = "run" /\ Step("CALL_GLOBAL_COUNTED")
CallGlobalCountedLazyStep == phase = "run" /\ Step("CALL_GLOBAL_COUNTED_LAZY")
StackLengthStep == phase = "run" /\ Step("STACK_LENGTH")
DoneStep == phase = "run" /\ Step("DONE")
ReturnStep == phase = "run" /\ Step("RETURN")
HaltStep == phase = "run" /\ Step("HALT")
GotoStep == phase = "run" /\ Step("GOTO")
IfNotStep == phase = "run" /\ Step("IF_NOT")
PushLocalStep == phase = "run" /\ Step("PUSH_LOCAL")
SyscallCountedStep == phase = "run" /\ Step("SYSCALL_COUNTED")

\* A dispatch that does not land on a handler: pc left the code, or the
\* word under it is not a handler address.
WildDispatch ==
    /\ phase = "run"
    /\ ~(Readable(pc) /\ \E op \in Handlers : Fetch(M, pc) = LabelAddr(op))
    /\ phase' = "ub"
    /\ last' = [NoLast EXCEPT !.op = "wild", !.site = pc, !.os = operand_stack_,
                              !.rs = return_stack_, !.nframes = Len(frames)]
    /\ UNCHANGED << host, bundle, order, li, ii, globals_, idents, heap_, planter, launcher,
                    pc, operand_stack_, return_stack_, frames, planted, evaluated,
                    objects >>

Next ==
    \/ DeclareGlobal
    \/ BeginBinding
    \/ PlantInstruction
    \/ EndBinding
    \/ HostDefineGlobal
    \/ Execute
    \/ Launch
    \/ PushIntStep
    \/ PushBoolStep
    \/ PushStringStep
    \/ PushGlobalStep
    \/ PushGlobalLazyStep
    \/ CallGlobalCountedStep
    \/ CallGlobalCountedLazyStep
    \/ StackLengthStep
    \/ DoneStep
    \/ ReturnStep
    \/ HaltStep
    \/ GotoStep
    \/ IfNotStep
    \/ PushLocalStep
    \/ SyscallCountedStep
    \/ WildDispatch

Spec == Init /\ [][Next]_vars

(***************************************************************************)
(* Properties.                                                             *)
(***************************************************************************)
AfterCall == last.op = "CALL_GLOBAL_COUNTED" /\ phase = "run"
AfterReturnFromCall == last.op = "RETURN" /\ phase = "run" /\ last.frame.kind = "call"

\* What a call/return pair leaves: the CALL takes the top nparams cells off
\* the operand stack, the RETURN leaves the operand stack alone and restores
\* the return stack to its size before the CALL.
PairBalanced ==
    /\ AfterCall =>
          /\ operand_stack_ = SubSeq(last.os, 1, Len(last.os) - last.frame.nparams)
          /\ Len(return_stack_) = Len(last.rs) + last.frame.nlocals + 2
    /\ AfterReturnFromCall =>
          /\ operand_stack_ = last.os
          /\ Len(return_stack_) = last.frame.rs_before

StrictLabelAt(a) == heap_.cells[PoolIdx(a)] = LabelAddr(StrictOf(planted[a]))
LazySites == { a \in DOMAIN planted : planted[a] \in LazyOps }

C2_Promoted ==
    /\ \A h \in evaluated : ~idents[h].lazy
    /\ (last.op \in LazyOps /\ last.ident \in evaluated) =>
          /\ phase = "run"
          /\ pc = last.site
          /\ Fetch(M, pc) = LabelAddr(StrictOf(last.op))

C2_RewrittenStays ==
    \A a \in LazySites : StrictLabelAt(a) => heap_'.cells[PoolIdx(a)] = heap_.cells[PoolIdx(a)]

\* C2: lazy promotion.  Once a DONE has completed the thunk of x, Ident{x}.lazy
\* is false; a lazy site for x executed after that rewrites its handler word
\* to the strict variant and dispatches it at the same site; and a handler
\* word rewritten to the strict variant keeps it, so the site never runs the
\* lazy handler (the only reader of Ident.lazy) again.
C2_LazyPromotion == [](C2_Promoted) /\ [][C2_RewrittenStays]_vars

C2_Witness ==
    /\ last.op = "PUSH_GLOBAL"
    /\ last.site \in LazySites
    /\ last.ident \in evaluated
    /\ Len(operand_stack_) = 3

\* C3: recursive lazy evaluation fails.  A *_LAZY instruction on x executed
\* while a thunk frame of x is active and x is still lazy raises a fatal
\* error instead of entering the thunk again.
C3_RecursiveLazyFails ==
    ( /\ last.op \in LazyOps
      /\ last.was_lazy
      /\ \E i \in 1..last.nframes :
            frames[i].kind = "thunk" /\ frames[i].ident = last.ident )
    => ( phase = "error" /\ Len(frames) = last.nframes )

\* C4: arity check at call.  A CALL_GLOBAL_COUNTED whose argument count
\* differs from the callee's nparams raises a fatal error and builds no
\* frame: both stacks are as before and control is not transferred.
C4_ArityCheck ==
    ( /\ last.op = "CALL_GLOBAL_COUNTED"
      /\ last.count >= 0
      /\ last.callee_nparams >= 0
      /\ last.count # last.callee_nparams )
    => ( /\ phase = "error"
         /\ operand_stack_ = last.os
         /\ return_stack_ = last.rs
         /\ Len(frames) = last.nframes )

Planted == phase \in { "plant", "ready" } /\ ii = 0 /\ planter.idname # "" /\ ~planter.err
PlantedCode == get_function_code(get_global_cell_ptr(GlobalTable, planter.idname))

\* C5: jump operand formula.  For every resolved GOTO or IF_NOT, backward
\* or forward, the operand cell at position ref holds target - (ref + 1),
\* target being the position recorded for the label; in a function the
\* planter accepted every jump is resolved and the code in the heap holds
\* the same operands.
C5_JumpOperandFormula ==
    /\ \A k \in 1..Len(planter.jumps) :
          planter.jumps[k].resolved =>
             planter.code[planter.jumps[k].ref + 1]
                = planter.jumps[k].target - (planter.jumps[k].ref + 1)
    /\ Planted =>
          \A k \in 1..Len(planter.jumps) :
             /\ planter.jumps[k].resolved
             /\ heap_.cells[PoolIdx(PlantedCode + 8 * planter.jumps[k].ref)]
                   = planter.jumps[k].target - (planter.jumps[k].ref + 1)

C5_Witness ==
    /\ Planted
    /\ \E j, k \in 1..Len(planter.jumps) :
          /\ planter.jumps[j].target > planter.jumps[j].ref
          /\ planter.jumps[k].target < planter.jumps[k].ref

HaltedOn(is) == phase = "halted" /\ bundle["main"].instructions = is

\* C6: a planted GOTO reaches its label.  After a GOTO control is at a
\* planted handler word, and push 1; goto skip; push 999; label skip; push 2
\* halts with exactly [1, 2] on the operand stack.
C6_GotoReachesLabel ==
    /\ (last.op = "GOTO" /\ phase = "run") => pc \in DOMAIN planted
    /\ HaltedOn(ForwardJump) =>
          operand_stack_ = << make_tagged_int(1), make_tagged_int(2) >>

\* C7: IF_NOT pops exactly one value and jumps by its operand iff the value
\* is FALSE; push.bool false; if.not skip; push 99; label skip; push 42
\* halts with [42], and with true with [99, 42].
C7_IfNotSemantics ==
    /\ (last.op = "IF_NOT" /\ phase = "run") =>
          /\ operand_stack_ = Pop(last.os)
          /\ pc = last.site + 16
                  + (IF Top(last.os) = SPECIAL_FALSE
                     THEN 8 * Fetch(M, last.site + 8) ELSE 0)
    /\ HaltedOn(ConditionalSkip("false")) =>
          operand_stack_ = << make_tagged_int(42) >>
    /\ HaltedOn(ConditionalSkip("true")) =>
          operand_stack_ = << make_tagged_int(99), make_tagged_int(42) >>

\* C8: DONE completes a lazy binding with any value.  A DONE o,id executed
\* with exactly one value v above the snapshot succeeds whatever v is, sets
\* id.cell = v, clears id.in_progress and id.lazy and leaves v on the stack.
C8_DoneAnyValue ==
    (last.op = "DONE" /\ last.count = 1 /\ last.ident # 0) =>
       /\ phase = "run"
       /\ idents[last.ident] = [cell |-> Top(last.os), lazy |-> FALSE, in_progress |-> FALSE]
       /\ operand_stack_ = last.os

Loaded == phase \notin { "declare", "plant" }

\* C9: the lazy bit is monotone during execution.  Once loading has
\* finished no Ident's lazy flag goes from false to true, and it goes from
\* true to false only in a DONE naming that Ident (hence at most once).
C9_LazyMonotone ==
    [][Loaded =>
         \A h \in DOMAIN idents :
            idents'[h].lazy # idents[h].lazy =>
               /\ idents[h].lazy
               /\ ~idents'[h].lazy
               /\ last'.op = "DONE"
               /\ last'.ident = h]_vars

C9_Witness ==
    /\ last.op = "DONE"
    /\ last.was_lazy
    /\ ~idents[last.ident].lazy
    /\ phase = "run"

LauncherHalt == phase = "halted" /\ InLauncher(last.site)

CallOnNonFunction ==
    /\ last.op \in { "CALL_GLOBAL_COUNTED", "CALL_GLOBAL_COUNTED_LAZY" }
    /\ last.ident # 0
    /\ last.op = "CALL_GLOBAL_COUNTED" \/ last.was_lazy
    /\ ~is_function_value(heap_, idents[last.ident].cell)

\* C11: a counted call (strict, or lazy entering the thunk) on a global
\* whose cell is not a function pointer (UNDEF, a tagged integer, a string
\* pointer) ends in a fatal error before any frame is built.
C11_NonFunctionCalleeRejected ==
    CallOnNonFunction => phase = "error" /\ return_stack_ = last.rs

\* The lazy handlers do reject such a cell: entering the thunk goes through
\* get_function_ptr and call_function_object.
C11_LazyCalleeRejected ==
    CallOnNonFunction /\ last.op = "CALL_GLOBAL_COUNTED_LAZY"
        => phase = "error" /\ return_stack_ = last.rs


\* The bindings of the bundle whose value is planted from instructions.
FunctionBindings == { n \in DOMAIN bundle : bundle[n].kind = "function" }

\* No function object has come out of planting the binding n.
NoFunctionObject(n) ==
    /\ n \in DOMAIN globals_ => idents[globals_[n]].cell = make_undef
    /\ phase \notin { "ready", "run", "halted", "ub" }

\* Some GOTO or IF_NOT of the list names a label no LABEL of the list defines.
UnresolvedLabel(is) ==
    \E i \in 1..Len(is) :
       /\ is[i].type \in { "goto", "if.not" }
       /\ has_value(is[i].value)
       /\ \A j \in 1..Len(is) :
             ~(is[j].type = "label" /\ is[j].value = is[i].value)

\* C12: unresolved label fails.  A binding whose instruction list has a GOTO
\* or IF_NOT naming a label that no LABEL of the list defines never yields a
\* function object; and when planting has succeeded the forward-reference
\* list of the planter is empty.
C12_UnresolvedLabelFails ==
    /\ \A n \in FunctionBindings :
          UnresolvedLabel(bundle[n].instructions) => NoFunctionObject(n)
    /\ Planted => DOMAIN planter.forward_refs = {}

\* The end of the pass has just thrown on a forward reference left over.
C12_Witness ==
    /\ phase = "error"
    /\ UnresolvedLabel(bundle[order[li]].instructions)
    /\ ii = Len(bundle[order[li]].instructions) + 1
    /\ DOMAIN planter.forward_refs # {}
    /\ planter.err

\* Two LABEL instructions of the list have the same name.
DuplicateLabel(is) ==
    \E i, j \in 1..Len(is) :
       /\ i < j
       /\ is[i].type = "label" /\ is[j].type = "label"
       /\ has_value(is[i].value) /\ is[i].value = is[j].value

\* C13: duplicate label fails.  A binding whose instruction list has two
\* LABEL instructions of the same name never yields a function object.
C13_DuplicateLabelFails ==
    \A n \in FunctionBindings :
       DuplicateLabel(bundle[n].instructions) => NoFunctionObject(n)

\* The operands the planter reads for each type string.
RequiredOperands ==
    ("push.int" :> { "ivalue" }) @@ ("push.bool" :> { "value" })
    @@ ("push.string" :> { "value" }) @@ ("push.local" :> { "index" })
    @@ ("pop.local" :> { "index" }) @@ ("push.global" :> { "name" })
    @@ ("call.global.counted" :> { "index", "name" })
    @@ ("syscall.counted" :> { "index", "name" })
    @@ ("stack.length" :> { "index" }) @@ ("check.bool" :> { "index" })
    @@ ("label" :> { "value" }) @@ ("goto" :> { "value" }) @@ ("if.not" :> { "value" })
    @@ ("done" :> { "index", "name" }) @@ ("return" :> {}) @@ ("halt" :> {})

\* An instruction with an unknown type string, without an operand its
\* opcode requires, naming a global without Ident or a sys-function that is
\* not in the table, or a PUSH_BOOL spelt neither "true" nor "false".
Malformed(inst) ==
    \/ inst.type \notin DOMAIN RequiredOperands
    \/ /\ inst.type \in DOMAIN RequiredOperands
       /\ \/ \E f \in RequiredOperands[inst.type] : ~has_value(inst[f])
          \/ /\ inst.type \in { "push.global", "call.global.counted", "done" }
             /\ has_value(inst.name)
             /\ value_of(inst.name) \notin DOMAIN bundle
          \/ /\ inst.type = "syscall.counted"
             /\ has_value(inst.name)
             /\ \A i \in 1..Len(sysfunctions_table) :
                   sysfunctions_table[i] # value_of(inst.name)
          \/ /\ inst.type = "push.bool"
             /\ has_value(inst.value)
             /\ value_of(inst.value) \notin { "true", "false" }

NamedLazy(inst) ==
    /\ has_value(inst.name)
    /\ value_of(inst.name) \in DOMAIN get_dependencies(bundle)
    /\ get_dependencies(bundle)[value_of(inst.name)]

\* The sites of the planter that an instruction of the list produced (the
\* closing HALT of parse() has none).
InstructionSites == { k \in 1..Len(planter.sites) : planter.sites[k].inst.type # "" }

\* C15: strict/lazy variant selection.  For every planted instruction the
\* handler word emitted is that of the lazy column of its type's opcode pair
\* iff the instruction has a name, the name is a key of deps and deps[name]
\* is true; otherwise it is that of the strict column.
C15_VariantSelection ==
    \A k \in InstructionSites :
       LET site == planter.sites[k]
           pair == TypeTable[site.inst.type]
           column == IF NamedLazy(site.inst) THEN pair[2] ELSE pair[1]
       IN  /\ site.opcode = column
           /\ planter.code[site.pos + 1] = LabelAddr(column)

\* One function with a call of the lazy global x planted in the lazy column
\* and a nameless instruction planted in the strict one.
C15_Witness ==
    /\ Planted
    /\ \E k \in InstructionSites :
          /\ planter.sites[k].opcode = "CALL_GLOBAL_COUNTED_LAZY"
          /\ planter.sites[k].inst.name = Some("x")
          /\ bundle["x"].lazy
    /\ \E k \in InstructionSites : planter.sites[k].opcode = "STACK_LENGTH"

\* A frame has just been built by LAUNCH, a strict counted call or a thunk
\* entry, for a function of n parameters and L locals whose arguments were
\* on the operand stack.
FrameBuilt ==
    /\ last.op \in { "LAUNCH", "CALL_GLOBAL_COUNTED" } \cup LazyOps
    /\ last.frame.kind # "none"
    /\ phase = "run"
    /\ last.frame.nparams <= Len(last.os)

Reverse(s) == [i \in 1..Len(s) |-> s[Len(s) - i + 1]]

\* The return stack after a frame build whose parameter cells hold params.
FrameWith(params) ==
    LET n == last.frame.nparams
        L == last.frame.nlocals
        extras == IF L > n THEN L - n ELSE 0
    IN  /\ Len(return_stack_) = Len(last.rs) + extras + n + 2
        /\ SubSeq(return_stack_, 1, Len(last.rs)) = last.rs
        /\ \A i \in 1..extras : return_stack_[Len(last.rs) + i] = make_nil
        /\ SubSeq(return_stack_, Len(last.rs) + extras + 1, Len(last.rs) + extras + n)
              = params
        /\ operand_stack_ = SubSeq(last.os, 1, Len(last.os) - n)

Arguments == SubSeq(last.os, Len(last.os) - last.frame.nparams + 1, Len(last.os))

\* C16: parameter order in a frame.  After a frame build for a callee of n
\* parameters whose arguments a_1..a_n were pushed in that order, the return
\* stack holds, above what it held, the NIL extras, then a_1 (lowest) to a_n
\* (highest), then the function pointer and the return address.
C16_ParameterOrder ==
    FrameBuilt => FrameWith(Arguments)

\* What push_return(pop()) does: the last argument ends up lowest.
C16_ParametersReversed ==
    FrameBuilt => FrameWith(Reverse(Arguments))

\* The return-stack cell (1-based) that local i of a function of L locals
\* addresses in the current state: calc_offset at plant time, then
\* get_local_variable.
LocalCell(i, L) == LocalIdx(M, calc_offset(StackLength(i), L))

\* The top frame f is whole on the return stack.
FrameOnTop(f, rs) ==
    Len(rs) = f.rs_before + (IF f.nlocals > f.nparams THEN f.nlocals ELSE f.nparams) + 2

\* C17: local addressing.  While the frame of a function with L locals is on
\* top, every index i in 0..L-1 selects, through offset L - i + 2, a cell of
\* that frame above the caller's cells and below the function-pointer and
\* return-address slots, distinct indices select distinct cells, and a
\* STACK_LENGTH with such an index writes that cell and no other.
C17_LocalAddressing ==
    /\ (phase = "run" /\ frames # << >> /\ FrameOnTop(Top(frames), return_stack_)) =>
          LET f == Top(frames)
          IN  /\ \A i \in 0..(f.nlocals - 1) :
                    /\ LocalCell(i, f.nlocals) > f.rs_before
                    /\ LocalCell(i, f.nlocals) <= Len(return_stack_) - 2
              /\ \A i, j \in 0..(f.nlocals - 1) :
                    i # j => LocalCell(i, f.nlocals) # LocalCell(j, f.nlocals)
    /\ (phase = "run" /\ last.op = "STACK_LENGTH" /\ frames # << >>
        /\ FrameOnTop(Top(frames), last.rs)) =>
          LET f == Top(frames)
              i == f.nlocals - Fetch(M, last.site + 8) + 2
          IN  (0 <= i /\ i < f.nlocals) =>
                 /\ Len(return_stack_) = Len(last.rs)
                 /\ \A k \in 1..Len(last.rs) :
                       k # LocalCell(i, f.nlocals) => return_stack_[k] = last.rs[k]
                 /\ return_stack_[LocalCell(i, f.nlocals)] = make_tagged_int(Len(last.os))

\* A called function of two locals has just written its local 0.
C17_Witness ==
    /\ phase = "run"
    /\ last.op = "STACK_LENGTH"
    /\ frames # << >>
    /\ Top(frames).kind = "call"
    /\ Top(frames).nlocals = 2
    /\ Top(frames).nparams = 1
    /\ Fetch(M, last.site + 8) = 4
    /\ return_stack_[LocalCell(0, 2)] = make_tagged_int(Len(last.os))

\* The push.int instructions of the function planted last whose handler word
\* is the site the last handler ran at.
PushIntSites ==
    { k \in InstructionSites :
        /\ planter.sites[k].opcode = "PUSH_INT"
        /\ PlantedCode + 8 * planter.sites[k].pos = last.site }

\* C18: an integer literal is tagged exactly once end to end.  Executing the
\* code planted for {push.int, ivalue: v} pushes one cell c with
\* detag_int(c) = v.
C18_IntLiteralTaggedOnce ==
    (phase = "run" /\ last.op = "PUSH_INT") =>
       \A k \in PushIntSites :
          /\ operand_stack_ = Append(last.os, Top(operand_stack_))
          /\ as_detagged_int(Top(operand_stack_)) = value_of(planter.sites[k].inst.ivalue)

\* What the planter and L_PUSH_INT do together: the cell pushed is the
\* literal tagged twice.
C18_IntLiteralTaggedTwice ==
    (phase = "run" /\ last.op = "PUSH_INT") =>
       \A k \in PushIntSites :
          operand_stack_ = Append(last.os,
             make_tagged_int(make_tagged_int(value_of(planter.sites[k].inst.ivalue))))

\* The cell of the heap at address a.
HeapCell(a) == heap_.cells[PoolIdx(a)]

\* A code word of a function object as it was copied in, or the strict
\* handler word a lazy site has been promoted to.
CodeWordOf(word, cell) ==
    \/ cell = word
    \/ word = LabelAddr("PUSH_GLOBAL_LAZY") /\ cell = LabelAddr("PUSH_GLOBAL")
    \/ word = LabelAddr("CALL_GLOBAL_COUNTED_LAZY") /\ cell = LabelAddr("CALL_GLOBAL_COUNTED")

\* C19: heap object identity.  For every string object allocate_string has
\* returned, s[0] is the StringDatakey pointer and s[-1] the byte length with
\* the NUL; for every function object allocate_function has returned for N
\* code words, f[0] is the FunctionDatakey pointer, f[-2] detags to N, f[-1]
\* detags to 0 and the code occupies f[2..2+N), the end of its block; so
\* is_function_object holds of every function and of no string.
C19_HeapObjectIdentity ==
    \A o \in objects :
       IF o.kind = "string"
       THEN /\ HeapCell(o.ptr) = string_datakey_
            /\ HeapCell(o.ptr - 8) = o.n
            /\ o.ptr - 8 = o.from
            /\ ~is_function_object(heap_, o.ptr)
       ELSE /\ HeapCell(o.ptr) = function_datakey_
            /\ is_tagged_int(HeapCell(o.ptr - 16))
            /\ as_detagged_int(HeapCell(o.ptr - 16)) = o.n
            /\ is_tagged_int(HeapCell(o.ptr - 8))
            /\ as_detagged_int(HeapCell(o.ptr - 8)) = 0
            /\ o.ptr - 16 = o.from
            /\ get_function_code(o.ptr) = o.ptr + 16
            /\ o.ptr + 16 + 8 * o.n = o.to
            /\ \A i \in 1..o.n : CodeWordOf(o.code[i], HeapCell(o.ptr + 8 + 8 * i))
            /\ is_function_object(heap_, o.ptr)

\* The heap holds a string object and a function object, and the program
\* that pushes the string is running.
C19_Witness ==
    /\ phase = "run"
    /\ \E o \in objects : o.kind = "string" /\ o.n = 3
    /\ \E o \in objects : o.kind = "function" /\ o.n > 2
    /\ last.op = "PUSH_STRING"

\* The blocks handed out lie above the three root datakeys and below the
\* cursor, no two of them share a cell, and the datakeys are as
\* init_datakeys wrote them.
BlocksDisjoint ==
    /\ \A o \in objects :
          /\ PoolAddr(Heap.next_free) <= o.from
          /\ o.from < o.to
          /\ o.to <= PoolAddr(heap_.next_free)
    /\ \A o1, o2 \in objects : o1 # o2 => o1.to <= o2.from \/ o2.to <= o1.from
    /\ \A i \in 1..Heap.next_free : heap_.cells[i] = Heap.cells[i]

\* One step of the program seen from the pool: the cursor does not go back;
\* a step that allocates writes no cell below the old cursor and forgets or
\* moves no object; a step on which an allocation fails leaves the cursor
\* and all cells as they were.
AllocationStep ==
    /\ heap_'.next_free >= heap_.next_free
    /\ heap_'.next_free <= PoolCells
    /\ objects \subseteq objects'
    /\ heap_'.next_free > heap_.next_free =>
          \A i \in 1..heap_.next_free : heap_'.cells[i] = heap_.cells[i]
    /\ (heap_'.err /\ ~heap_.err) =>
          /\ heap_'.next_free = heap_.next_free
          /\ heap_'.cells = heap_.cells

\* C20: the heap is append-only with a hard capacity.  The bump cursor never
\* decreases, every block allocated is disjoint from every earlier block and
\* from the three root datakeys, objects never move, and an allocation that
\* would pass the capacity fails and leaves the cursor and the cells
\* unchanged.
C20_HeapAppendOnly ==
    []BlocksDisjoint /\ [][AllocationStep]_vars

\* An allocation has failed on a pool that holds objects and has no room
\* for the block asked for.
C20_Witness ==
    /\ heap_.err
    /\ phase = "error"
    /\ objects # {}
    /\ heap_.next_free <= PoolCells
    /\ heap_.next_free + 4 > PoolCells

(***************************************************************************)
(* Host programs.  The tests drive the components of the machine through   *)
(* their interfaces, without a bundle file; each specification below is    *)
(* one such driver.  The machine itself is as its constructor left it.     *)
(***************************************************************************)
MachineVars ==
    << bundle, order, phase, li, ii, globals_, idents, heap_, planter, launcher, pc,
       operand_stack_, return_stack_, last, frames, planted, evaluated, objects >>

\* Machine::Machine(): empty stacks, no globals, the heap with its datakeys.
MachineConstructed ==
    /\ bundle = [n \in {} |-> 0]
    /\ order = << >>
    /\ phase = "host"
    /\ li = 1
    /\ ii = 0
    /\ globals_ = NoGlobals
    /\ idents = << >>
    /\ heap_ = Heap
    /\ planter = ParseFunctionObject("", 0, 0)
    /\ launcher = << 0, 0, 0 >>
    /\ pc = 0
    /\ operand_stack_ = << >>
    /\ return_stack_ = << >>
    /\ last = NoLast
    /\ frames = << >>
    /\ planted = [a \in {} |-> ""]
    /\ evaluated = {}
    /\ objects = {}

(***************************************************************************)
(* value.hpp driven by a host: one value is tagged, detagged and           *)
(* classified.                                                             *)
(***************************************************************************)
\* How far from 0 and from the ends of a range the inputs are drawn.
Window == 40

\* The integers a tagged int holds: 62 of the 64 bits, here CellBits - 2.
MinTaggedInt == -(2 ^ (CellBits - 3))
MaxTaggedInt == 2 ^ (CellBits - 3) - 1

\* The values of a cell, as int64_t.
MinCell == -(2 ^ (CellBits - 1))
MaxCell == 2 ^ (CellBits - 1) - 1

Near(lo, hi) ==
    { v \in (lo..(lo + Window)) \cup ((-Window)..Window) \cup ((hi - Window)..hi) :
        lo <= v /\ v <= hi }

IntInputs == Near(MinTaggedInt, MaxTaggedInt)
PtrInputs == { 8 * k : k \in Near(0, MaxCell \div 8) } \cup { PoolAddr(i) : i \in 0..(PoolCells - 1) }
CellInputs == Near(MinCell, MaxCell)

\* The tag predicates that hold of a cell.
Classes(cell) ==
    { c \in { "int", "float", "ptr", "special" } :
        \/ c = "int" /\ is_tagged_int(cell)
        \/ c = "float" /\ is_tagged_float(cell)
        \/ c = "ptr" /\ is_tagged_ptr(cell)
        \/ c = "special" /\ (is_bool(cell) \/ is_nil(cell)) }

ValueHost(op, in, cell, step) ==
    [unit |-> "value", op |-> op, in |-> in, cell |-> cell, out |-> 0,
     classes |-> {}, step |-> step]

ValueInit ==
    /\ MachineConstructed
    /\ host \in { ValueHost("int", i, 0, "input") : i \in IntInputs }
              \cup { ValueHost("ptr", p, 0, "input") : p \in PtrInputs }
              \cup { ValueHost("special", b, 0, "input") : b \in 0..2 }
              \cup { ValueHost("cell", c, c, "made") : c \in CellInputs }

MakeTaggedInt ==
    /\ host.unit = "value" /\ host.op = "int" /\ host.step = "input"
    /\ host' = [host EXCEPT !.cell = make_tagged_int(host.in), !.step = "made"]
    /\ UNCHANGED MachineVars

AsDetaggedInt ==
    /\ host.unit = "value" /\ host.op = "int" /\ host.step = "classified"
    /\ host' = [host EXCEPT !.out = as_detagged_int(host.cell), !.step = "read"]
    /\ UNCHANGED MachineVars

MakeTaggedPtr ==
    /\ host.unit = "value" /\ host.op = "ptr" /\ host.step = "input"
    /\ host' = [host EXCEPT !.cell = make_tagged_ptr(host.in), !.step = "made"]
    /\ UNCHANGED MachineVars

AsDetaggedPtr ==
    /\ host.unit = "value" /\ host.op = "ptr" /\ host.step = "classified"
    /\ host' = [host EXCEPT !.out = as_detagged_ptr(host.cell), !.step = "read"]
    /\ UNCHANGED MachineVars

\* make_bool(false), make_bool(true), make_nil().
MakeSpecial ==
    /\ host.unit = "value" /\ host.op = "special" /\ host.step = "input"
    /\ host' = [host EXCEPT !.cell = IF host.in = 2 THEN make_nil ELSE make_bool(host.in = 1),
                            !.step = "made"]
    /\ UNCHANGED MachineVars

\* is_tagged_int, is_tagged_float, is_tagged_ptr, is_bool and is_nil of the cell.
Classify ==
    /\ host.unit = "value" /\ host.step = "made"
    /\ host' = [host EXCEPT !.classes = Classes(host.cell), !.step = "classified"]
    /\ UNCHANGED MachineVars

ValueNext ==
    \/ MakeTaggedInt
    \/ AsDetaggedInt
    \/ MakeTaggedPtr
    \/ AsDetaggedPtr
    \/ MakeSpecial
    \/ Classify

ValueSpec == ValueInit /\ [][ValueNext]_vars

\* C25: tagged-int round trip.  For every integer i of the tagged range
\* (62 bits with the sign, here CellBits - 2), make_tagged_int(i) is a
\* tagged int and as_detagged_int gives i back.
C25_TaggedIntRoundTrip ==
    (host.unit = "value" /\ host.op = "int") =>
       /\ host.step = "classified" => "int" \in host.classes /\ host.cell % 4 = 0
       /\ host.step = "read" => host.out = host.in

\* A negative integer and the two ends of the range have made the round trip.
C25_Witness ==
    /\ host.unit = "value" /\ host.op = "int" /\ host.step = "read"
    /\ host.in = MinTaggedInt
    /\ host.out = MinTaggedInt
    /\ host.cell = MinCell

\* C26: tagged-pointer round trip.  For every 8-byte-aligned pointer p,
\* make_tagged_ptr(p) is a tagged pointer and as_detagged_ptr gives p back.
C26_TaggedPtrRoundTrip ==
    (host.unit = "value" /\ host.op = "ptr") =>
       /\ host.step = "classified" => "ptr" \in host.classes
       /\ host.step = "read" => host.out = host.in

\* A pointer into the pool with bit 3 set has made the round trip.
C26_Witness ==
    /\ host.unit = "value" /\ host.op = "ptr" /\ host.step = "read"
    /\ host.in = PoolAddr(1)
    /\ host.cell = PoolAddr(1) + 1
    /\ host.out = PoolAddr(1)

\* C27: the tag predicates are mutually exclusive.  Of every cell value at
\* most one of is_tagged_int, is_tagged_float, is_tagged_ptr and is-special
\* (is_bool or is_nil) holds; FALSE, TRUE and NIL are special only, and no
\* result of make_tagged_int or make_tagged_ptr is special.
C27_TagsExclusive ==
    (host.unit = "value" /\ host.step \in { "classified", "read" }) =>
       /\ Cardinality(host.classes) <= 1
       /\ host.op = "special" => host.classes = { "special" }
       /\ host.op \in { "int", "ptr" } => "special" \notin host.classes

\* TRUE has been classified, as special and as nothing else.
C27_Witness ==
    /\ host.unit = "value" /\ host.op = "special" /\ host.step = "classified"
    /\ host.cell = SPECIAL_TRUE
    /\ host.classes = { "special" }

(***************************************************************************)
(* The global table driven by a host: define_global, lookup_global,        *)
(* has_global and lookup_ident in any order.  The host remembers the Ident *)
(* each name got from its first define and what it defined last.           *)
(***************************************************************************)
MaxDefines == 3

HostNames == { "x", "y", "z" }
HostCells == { make_tagged_int(42), make_tagged_int(100), make_undef }

NoAnswer == [call |-> "none", name |-> "", has |-> FALSE, err |-> FALSE, cell |-> 0, ident |-> 0]

GlobalsInit ==
    /\ MachineConstructed
    /\ host = [unit |-> "globals", defines |-> 0, first |-> [n \in {} |-> 0],
               latest |-> [n \in {} |-> 0], answer |-> NoAnswer]

\* machine.define_global(name, cell, lazy), then what lookup_ident answers.
DefineGlobalCall ==
    /\ host.unit = "globals"
    /\ host.defines < MaxDefines
    /\ \E name \in HostNames, cell \in HostCells, lazy \in BOOLEAN :
          LET g == define_global(GlobalTable, name, cell, lazy)
          IN  /\ globals_' = g.globals
              /\ idents' = g.idents
              /\ host' = [host EXCEPT
                    !.defines = @ + 1,
                    !.first = IF name \in DOMAIN host.first THEN @
                              ELSE (name :> lookup_ident(g, name)) @@ @,
                    !.latest = (name :> [cell |-> cell, lazy |-> lazy]) @@ @,
                    !.answer = [NoAnswer EXCEPT !.call = "define", !.name = name]]
    /\ UNCHANGED << bundle, order, phase, li, ii, heap_, planter, launcher, pc,
                    operand_stack_, return_stack_, last, frames, planted, evaluated,
                    objects >>

\* machine.has_global(name), machine.lookup_global(name) and
\* machine.lookup_ident(name).
LookupGlobalCall ==
    /\ host.unit = "globals"
    /\ \E name \in HostNames :
          host' = [host EXCEPT !.answer =
                      [call |-> "lookup", name |-> name,
                       has |-> has_global(GlobalTable, name),
                       err |-> lookup_global(GlobalTable, name).err,
                       cell |-> lookup_global(GlobalTable, name).cell,
                       ident |-> lookup_ident(GlobalTable, name)]]
    /\ UNCHANGED MachineVars

GlobalsNext ==
    \/ DefineGlobalCall
    \/ LookupGlobalCall

GlobalsSpec == GlobalsInit /\ [][GlobalsNext]_vars

\* C21: Ident stability.  lookup_ident(name) answers the Ident the first
\* define of the name created; a redefinition creates, moves and deletes no
\* Ident (there is one Ident per name defined), and that Ident holds the
\* cell and the lazy flag defined last.
C21_IdentStability ==
    host.unit = "globals" =>
       /\ Len(idents) = Cardinality(DOMAIN host.first)
       /\ \A n \in DOMAIN host.first :
             /\ lookup_ident(GlobalTable, n) = host.first[n]
             /\ IsIdentAddr(host.first[n], Len(idents))
             /\ idents[IdentHandle(host.first[n])].cell = host.latest[n].cell
             /\ idents[IdentHandle(host.first[n])].lazy = host.latest[n].lazy
       /\ \A n, k \in DOMAIN host.first : n # k => host.first[n] # host.first[k]
       /\ host.answer.call = "lookup" /\ host.answer.name \in DOMAIN host.first
             => host.answer.ident = host.first[host.answer.name]

\* x was defined, then y, then x again with another cell and flag, and
\* lookup_ident("x") has been asked.
C21_Witness ==
    /\ host.unit = "globals"
    /\ host.defines = 3
    /\ DOMAIN host.first = { "x", "y" }
    /\ host.first["x"] = IdentAddr(1)
    /\ host.latest["x"] = [cell |-> make_tagged_int(100), lazy |-> TRUE]
    /\ host.answer.call = "lookup" /\ host.answer.name = "x"
    /\ host.answer.ident = IdentAddr(1)

\* C28: global table define/lookup.  has_global(name) is true iff the name
\* was defined; lookup_global(name) answers the cell of the most recent
\* define of the name; a define changes the cell and the lazy flag of no
\* other name; lookup_global of an undefined name raises an error.
C28_DefineLookup ==
    host.unit = "globals" =>
       /\ \A n \in HostNames : has_global(GlobalTable, n) <=> n \in DOMAIN host.latest
       /\ \A n \in DOMAIN host.latest :
             /\ idents[globals_[n]].cell = host.latest[n].cell
             /\ idents[globals_[n]].lazy = host.latest[n].lazy
       /\ host.answer.call = "lookup" =>
             IF host.answer.name \in DOMAIN host.latest
             THEN /\ host.answer.has
                  /\ ~host.answer.err
                  /\ host.answer.cell = host.latest[host.answer.name].cell
             ELSE ~host.answer.has /\ host.answer.err

\* After three defines, two of them of x, lookup_global("x") has answered
\* the later cell; and a lookup of the undefined z has failed.
C28_Witness ==
    /\ host.unit = "globals"
    /\ host.defines = 3
    /\ DOMAIN host.latest = { "x", "y" }
    /\ host.latest["x"].cell = make_tagged_int(100)
    /\ host.latest["y"].cell = make_tagged_int(42)
    /\ host.answer.call = "lookup" /\ host.answer.name = "z"
    /\ host.answer.err

(***************************************************************************)
(* The operand stack, driven through its interface.  src/ holds two        *)
(* implementations: CellStack (cell_stack.hpp), an array of a capacity     *)
(* fixed at construction, and the std::vector the Machine of machine.cpp   *)
(* pushes to.  A stack operation answers [err, cells, out].                *)
(***************************************************************************)
\* CellStack's capacity_, chosen at construction.
StackCapacity == 3

\* How far the host lets the Machine's vector grow.
MaxVector == StackCapacity + 2

StackAnswer(err, cells, out) == [err |-> err, cells |-> cells, out |-> out]

\* CellStack::push: top_ >= limit_ throws, else *top_++ = value.
CellStack_push(s, value) ==
    IF Len(s) >= StackCapacity THEN StackAnswer(TRUE, s, 0)
    ELSE StackAnswer(FALSE, Append(s, value), 0)

\* CellStack::pop: top_ <= base_ throws, else *--top_.
CellStack_pop(s) ==
    IF Len(s) <= 0 THEN StackAnswer(TRUE, s, 0)
    ELSE StackAnswer(FALSE, SubSeq(s, 1, Len(s) - 1), s[Len(s)])

\* CellStack::peek.
CellStack_peek(s) ==
    IF Len(s) <= 0 THEN StackAnswer(TRUE, s, 0)
    ELSE StackAnswer(FALSE, s, s[Len(s)])

\* CellStack::peek_at: base_[index], index counted from the bottom at 0.
CellStack_peek_at(s, index) ==
    IF index >= Len(s) THEN StackAnswer(TRUE, s, 0)
    ELSE StackAnswer(FALSE, s, s[index + 1])

\* CellStack::pop_multiple: top_ - count < base_ throws, else top_ -= count.
CellStack_pop_multiple(s, count) ==
    IF Len(s) - count < 0 THEN StackAnswer(TRUE, s, 0)
    ELSE StackAnswer(FALSE, SubSeq(s, 1, Len(s) - count), 0)

\* Machine::push: operand_stack_.push_back(value), whatever the size.
Machine_push(s, value) == StackAnswer(FALSE, Append(s, value), 0)

\* Machine::pop: empty() throws, else back() and pop_back().
Machine_pop(s) ==
    IF s = << >> THEN StackAnswer(TRUE, s, 0)
    ELSE StackAnswer(FALSE, SubSeq(s, 1, Len(s) - 1), s[Len(s)])

\* Machine::pop_multiple: size() < count throws, else resize(size() - count).
Machine_pop_multiple(s, count) ==
    IF Len(s) < count THEN StackAnswer(TRUE, s, 0)
    ELSE StackAnswer(FALSE, SubSeq(s, 1, Len(s) - count), 0)

\* Machine::peek.
Machine_peek(s) ==
    IF s = << >> THEN StackAnswer(TRUE, s, 0)
    ELSE StackAnswer(FALSE, s, s[Len(s)])

\* Machine::peek_at.
Machine_peek_at(s, index) ==
    IF index >= Len(s) THEN StackAnswer(TRUE, s, 0)
    ELSE StackAnswer(FALSE, s, s[index + 1])

StackImpls == { "CellStack", "Machine" }

StackValues == { make_tagged_int(1), make_tagged_int(2) }

\* The host's own record of the calls: the stack before the last call, the
\* call, its argument and its answer.  A CellStack lives in host.cells; the
\* Machine's stack is operand_stack_.
StackHost(impl, cells, call, arg, before, answer) ==
    [unit |-> "stack", impl |-> impl, cells |-> cells, call |-> call,
     arg |-> arg, before |-> before, err |-> answer.err, out |-> answer.out]

StackInit ==
    /\ MachineConstructed
    /\ \E impl \in StackImpls :
          host = StackHost(impl, << >>, "new", 0, << >>, StackAnswer(FALSE, << >>, 0))

StackCells == IF host.impl = "Machine" THEN operand_stack_ ELSE host.cells

\* One call of the stack under test and what the host keeps of it.
StackCall(call, arg, answer) ==
    /\ operand_stack_' = IF host.impl = "Machine" THEN answer.cells ELSE operand_stack_
    /\ host' = StackHost(host.impl,
                         IF host.impl = "Machine" THEN host.cells ELSE answer.cells,
                         call, arg, StackCells, answer)
    /\ UNCHANGED << bundle, order, phase, li, ii, globals_, idents, heap_, planter,
                    launcher, pc, return_stack_, last, frames, planted, evaluated,
                    objects >>

StackPush ==
    /\ host.unit = "stack"
    /\ Len(StackCells) < MaxVector
    /\ \E value \in StackValues :
          StackCall("push", value,
                    IF host.impl = "Machine" THEN Machine_push(StackCells, value)
                    ELSE CellStack_push(StackCells, value))

StackPop ==
    /\ host.unit = "stack"
    /\ StackCall("pop", 0,
                 IF host.impl = "Machine" THEN Machine_pop(StackCells)
                 ELSE CellStack_pop(StackCells))

StackPeek ==
    /\ host.unit = "stack"
    /\ StackCall("peek", 0,
                 IF host.impl = "Machine" THEN Machine_peek(StackCells)
                 ELSE CellStack_peek(StackCells))

StackPeekAt ==
    /\ host.unit = "stack"
    /\ \E index \in 0 .. MaxVector :
          StackCall("peek_at", index,
                    IF host.impl = "Machine" THEN Machine_peek_at(StackCells, index)
                    ELSE CellStack_peek_at(StackCells, index))

StackPopMultiple ==
    /\ host.unit = "stack"
    /\ \E count \in 0 .. MaxVector :
          StackCall("pop_multiple", count,
                    IF host.impl = "Machine" THEN Machine_pop_multiple(StackCells, count)
                    ELSE CellStack_pop_multiple(StackCells, count))

StackNext ==
    \/ StackPush
    \/ StackPop
    \/ StackPeek
    \/ StackPeekAt
    \/ StackPopMultiple

StackSpec == StackInit /\ [][StackNext]_vars

\* What the last call had to do to a LIFO sequence: a push appends, a pop
\* answers and removes the last value, peek answers it, peek_at(i) answers
\* the i-th value from the bottom, pop_multiple(k) removes the last k; a
\* call the stack is too short for fails and changes nothing.
StackLifo ==
    LET b == host.before
        n == Len(host.before)
    IN  CASE host.call = "push" ->
                ~host.err => StackCells = Append(b, host.arg)
          [] host.call = "pop" ->
                IF n = 0 THEN host.err /\ StackCells = b
                ELSE ~host.err /\ host.out = b[n] /\ StackCells = SubSeq(b, 1, n - 1)
          [] host.call = "peek" ->
                IF n = 0 THEN host.err /\ StackCells = b
                ELSE ~host.err /\ host.out = b[n] /\ StackCells = b
          [] host.call = "peek_at" ->
                IF host.arg >= n THEN host.err /\ StackCells = b
                ELSE ~host.err /\ host.out = b[host.arg + 1] /\ StackCells = b
          [] host.call = "pop_multiple" ->
                IF host.arg > n THEN host.err /\ StackCells = b
                ELSE ~host.err /\ StackCells = SubSeq(b, 1, n - host.arg)
          [] OTHER -> StackCells = << >>

\* A push onto a stack of StackCapacity cells fails and changes nothing, and
\* no stack holds more than StackCapacity cells.
StackBounded ==
    /\ Len(StackCells) <= StackCapacity
    /\ host.call = "push" /\ Len(host.before) = StackCapacity
          => host.err /\ StackCells = host.before

\* C29: operand-stack discipline.  Over any sequence of push, pop, peek,
\* peek_at and pop_multiple the stack is a LIFO sequence, a call it is too
\* short for raises an error and changes nothing, and a push at the fixed
\* capacity raises an error and changes nothing, so that the size never
\* exceeds the capacity.
C29_StackDiscipline ==
    host.unit = "stack" => StackLifo /\ StackBounded

\* The same of CellStack alone.
C29_CellStackDiscipline ==
    host.unit = "stack" /\ host.impl = "CellStack" => StackLifo /\ StackBounded

\* The LIFO part, of both implementations.
C29_Lifo ==
    host.unit = "stack" => StackLifo

(***************************************************************************)
(* The dispatch invariant.                                                 *)
(***************************************************************************)
\* The operand cells the planter emitted after the handler word of site k.
EmittedCells(k) ==
    (IF k < Len(planter.sites) THEN planter.sites[k + 1].pos ELSE Len(planter.code))
    - planter.sites[k].pos - 1

\* The sites whose instruction the planter finished.
FinishedSites ==
    { k \in 1..Len(planter.sites) : k < Len(planter.sites) \/ ~planter.err }

\* Every finished site has as many operand cells as its handler reads.
OperandCountsAgree(ops) ==
    \A k \in FinishedSites :
       planter.sites[k].opcode \in ops
          => EmittedCells(k) = OperandCells(planter.sites[k].opcode)

\* The handlers that pass control to the next instruction in line.
InLineOps ==
    { "PUSH_INT", "PUSH_STRING", "PUSH_BOOL", "PUSH_LOCAL", "POP_LOCAL", "STACK_LENGTH",
      "CHECK_BOOL", "PUSH_GLOBAL", "PUSH_GLOBAL_LAZY", "SYSCALL_COUNTED", "DONE" }

\* After a handler of ops that was dispatched from a planted handler word
\* the machine, if it still runs, is at a planted handler word.
DispatchAtHandlerWord(ops) ==
    phase = "run" /\ last.op \in ops /\ last.site \in DOMAIN planted
       => pc \in DOMAIN planted

AllOps == { Opcodes[i] : i \in 1..Len(Opcodes) }

\* C30: dispatch invariant.  Each dispatch reads a handler-address word,
\* never an operand cell: for every opcode the number of operand cells the
\* planter emits after the handler word is the number the handler consumes
\* before it dispatches the next instruction.
C30_DispatchInvariant ==
    OperandCountsAgree(AllOps) /\ DispatchAtHandlerWord(InLineOps \cup { "GOTO", "IF_NOT" })

\* The same of every opcode but PUSH_LOCAL.
C30_ButPushLocal ==
    /\ OperandCountsAgree(AllOps \ { "PUSH_LOCAL" })
    /\ DispatchAtHandlerWord((InLineOps \cup { "GOTO", "IF_NOT" }) \ { "PUSH_LOCAL" })

\* PUSH_LOCAL has run from a planted site and the next dispatch read its
\* operand cell.
C30_PushLocalOperandDispatched ==
    ~(/\ last.op = "wild"
      /\ last.site - 8 \in DOMAIN planted
      /\ planted[last.site - 8] = "PUSH_LOCAL")

(***************************************************************************)
(* Two-wave loading.                                                       *)
(***************************************************************************)
\* The dependency set main loads.
DependencySet == DOMAIN get_dependencies(bundle)

\* The first wave is over and nothing of the second has happened.
FirstWaveDone == phase = "plant" /\ li = 1 /\ ii = 0

\* Nothing has been planted or allocated.
NothingPlanted ==
    /\ planter = ParseFunctionObject("", 0, 0)
    /\ heap_ = Heap
    /\ objects = {}
    /\ DOMAIN planted = {}

\* The planter failed on a complete reference to a global: the handler word
\* of a push.global, call.global.counted or done with all its fields is the
\* last word planted, and the lookup of the name threw.
UnknownGlobalFailure ==
    /\ planter.err
    /\ planter.sites # << >>
    /\ LET site == planter.sites[Len(planter.sites)]
       IN  /\ site.opcode \in IdentOps
           /\ has_value(site.inst.name)
           /\ site.opcode \in { "PUSH_GLOBAL", "PUSH_GLOBAL_LAZY" } \/ has_value(site.inst.index)
           /\ Len(planter.code) = site.pos + 1

FailedName == value_of(planter.sites[Len(planter.sites)].inst.name)

\* C22: two-wave loading.  Every name of the dependency set is defined as
\* (UNDEF, lazy = false) before the first binding is planted, so that
\* planting a reference to a name of the dependency set never fails as an
\* unknown global, whatever the order of planting; after the second wave the
\* Ident of every binding holds a tagged pointer to its function object and
\* the lazy flag the bundle declares.
C22_TwoWaveLoading ==
    /\ phase = "declare" => NothingPlanted
    /\ FirstWaveDone =>
          /\ NothingPlanted
          /\ \A n \in DependencySet :
                /\ has_global(GlobalTable, n)
                /\ idents[globals_[n]].cell = make_undef
                /\ ~idents[globals_[n]].lazy
    /\ phase = "plant" => \A n \in DependencySet : lookup_ident(GlobalTable, n) # 0
    /\ UnknownGlobalFailure => FailedName \notin DependencySet
    /\ phase = "ready" =>
          /\ \A n \in FunctionBindings :
                /\ is_function_value(heap_, idents[globals_[n]].cell)
                /\ \E o \in objects :
                      /\ o.kind = "function"
                      /\ idents[globals_[n]].cell = make_tagged_ptr(o.ptr)
                /\ get_function_nlocals(heap_, get_global_cell_ptr(GlobalTable, n))
                      = bundle[n].nlocals
                /\ idents[globals_[n]].lazy = bundle[n].lazy
          /\ \A n, k \in FunctionBindings :
                n # k => idents[globals_[n]].cell # idents[globals_[k]].cell

\* main, the lazy f and g are loaded, g planted first: g's call of f and
\* f's call of g were planted, and f's Ident ends lazy with f's object.
C22_Witness ==
    /\ phase = "ready"
    /\ DOMAIN bundle = { "main", "f", "g" }
    /\ order = << "g", "f", "main" >>
    /\ bundle["f"].lazy
    /\ idents[globals_["f"]].lazy
    /\ is_function_value(heap_, idents[globals_["f"]].cell)
    /\ is_function_value(heap_, idents[globals_["g"]].cell)
    /\ \E a \in DOMAIN planted : planted[a] = "CALL_GLOBAL_COUNTED_LAZY"

(***************************************************************************)
(* bundle_reader.cpp: the dependencies of a name.  The bundle file holds   *)
(* the table depends_ons(id_name, needs) and, per binding, its lazy bit.   *)
(***************************************************************************)
BundleNames == { "main", "f", "g" }

\* BundleReader::get_dependencies: SELECT needs FROM depends_ons WHERE
\* id_name = ?, one row per answer.
BundleReader_get_dependencies(depends_ons, idname) ==
    { row[2] : row \in { r \in depends_ons : r[1] = idname } }

\* The names reachable from idname through depends_ons, idname included.
RECURSIVE ReachableFrom(_, _)
ReachableFrom(depends_ons, names) ==
    LET more == names \cup { r[2] : r \in { q \in depends_ons : q[1] \in names } }
    IN  IF more = names THEN names ELSE ReachableFrom(depends_ons, more)

DepsInit ==
    /\ MachineConstructed
    /\ \E rel \in SUBSET (BundleNames \X BundleNames), lazy \in SUBSET BundleNames :
          host = [unit |-> "deps", depends_ons |-> rel, lazy |-> lazy, asked |-> FALSE,
                  entry |-> "", answer |-> {}, bits |-> [n \in {} |-> FALSE]]

\* reader.get_dependencies(entry_point_name), as main calls it.
GetDependenciesCall ==
    /\ host.unit = "deps"
    /\ ~host.asked
    /\ \E entry \in BundleNames :
          host' = [host EXCEPT
                     !.asked = TRUE,
                     !.entry = entry,
                     !.answer = BundleReader_get_dependencies(host.depends_ons, entry)]
    /\ UNCHANGED MachineVars

\* reader.get_binding(name).lazy of a name of the answer.
GetBindingCall ==
    /\ host.unit = "deps"
    /\ host.asked
    /\ \E name \in host.answer \ DOMAIN host.bits :
          host' = [host EXCEPT !.bits = (name :> (name \in host.lazy)) @@ @]
    /\ UNCHANGED MachineVars

DepsNext ==
    \/ GetDependenciesCall
    \/ GetBindingCall

DepsSpec == DepsInit /\ [][DepsNext]_vars

\* C23: dependency discovery is complete.  The dependency set computed for
\* an entry point is exactly the set of names reachable from it through
\* depends_ons, the entry point included.
C23_DependencySetComplete ==
    host.unit = "deps" /\ host.asked
       => /\ host.answer = ReachableFrom(host.depends_ons, { host.entry })
          /\ \A n \in DOMAIN host.bits : host.bits[n] = (n \in host.lazy)

\* What the answer does hold: the direct needs of the entry point.
C23_DirectNeeds ==
    host.unit = "deps" /\ host.asked
       => /\ host.answer = { n \in BundleNames : << host.entry, n >> \in host.depends_ons }
          /\ \A n \in DOMAIN host.bits : host.bits[n] = (n \in host.lazy)

(***************************************************************************)
(* main.cpp: the command line and the exit code.  A string is the          *)
(* sequence of its characters; argv is the sequence argv[1..argc-1].       *)
(***************************************************************************)
MaxArgv == 3

OptEntryPointEq == << "-", "-", "e", "n", "t", "r", "y", "-", "p", "o", "i", "n", "t", "=" >>
OptEntryPoint == << "-", "-", "e", "n", "t", "r", "y", "-", "p", "o", "i", "n", "t" >>
OptE == << "-", "e" >>
OptEEq == << "-", "e", "=" >>

\* arg.rfind(prefix, 0) == 0 and arg.substr(pos).
StartsWith(arg, prefix) ==
    Len(arg) >= Len(prefix) /\ SubSeq(arg, 1, Len(prefix)) = prefix
substr(arg, pos) == SubSeq(arg, pos + 1, Len(arg))

NoEntryPoint == << >>
ParsedArgs(exited, entry_point, bundle_file, program_args) ==
    [exited |-> exited, entry_point |-> entry_point, bundle_file |-> bundle_file,
     program_args |-> program_args]

\* What follows the options: the bundle file, then the program's arguments.
parse_rest(argv, i, entry_point) ==
    IF i > Len(argv) THEN ParsedArgs(TRUE, entry_point, << >>, << >>)
    ELSE ParsedArgs(FALSE, entry_point, argv[i], SubSeq(argv, i + 1, Len(argv)))

\* parse_args with --entry-point=NAME cut one character early.
RECURSIVE parse_args_short_cut(_, _, _)
parse_args_short_cut(argv, i, entry_point) ==
    IF i > Len(argv) THEN parse_rest(argv, i, entry_point)
    ELSE LET arg == argv[i]
         IN  IF StartsWith(arg, OptEntryPointEq)
             THEN parse_args_short_cut(argv, i + 1, Some(substr(arg, 13)))
             ELSE IF arg = OptEntryPoint \/ arg = OptE
             THEN IF i + 1 > Len(argv) THEN ParsedArgs(TRUE, entry_point, << >>, << >>)
                  ELSE parse_args_short_cut(argv, i + 2, Some(argv[i + 1]))
             ELSE IF StartsWith(arg, OptEEq)
             THEN parse_args_short_cut(argv, i + 1, Some(substr(arg, 3)))
             ELSE IF arg = << >> \/ arg[1] # "-" THEN parse_rest(argv, i, entry_point)
             ELSE ParsedArgs(TRUE, entry_point, << >>, << >>)

\* parse_args from argv[i] on, entry_point being what the options before
\* it gave; exited: std::exit(1) was called.
RECURSIVE parse_args(_, _, _)
parse_args(argv, i, entry_point) ==
    IF i > Len(argv) THEN parse_rest(argv, i, entry_point)
    ELSE LET arg == argv[i]
         IN  IF StartsWith(arg, OptEntryPointEq)
             THEN parse_args(argv, i + 1, Some(substr(arg, 14)))
             ELSE IF arg = OptEntryPoint \/ arg = OptE
             THEN IF i + 1 > Len(argv) THEN ParsedArgs(TRUE, entry_point, << >>, << >>)
                  ELSE parse_args(argv, i + 2, Some(argv[i + 1]))
             ELSE IF StartsWith(arg, OptEEq)
             THEN parse_args(argv, i + 1, Some(substr(arg, 3)))
             ELSE IF arg = << >> \/ arg[1] # "-" THEN parse_rest(argv, i, entry_point)
             ELSE ParsedArgs(TRUE, entry_point, << >>, << >>)

\* main 92-111: the entry point to run, or the failure and what it lists.
select_entry_point(args, entry_points) ==
    IF args.entry_point # NoEntryPoint
    THEN [failed |-> FALSE, name |-> value_of(args.entry_point), listed |-> << >>]
    ELSE IF entry_points = << >>
    THEN [failed |-> TRUE, name |-> << >>, listed |-> << >>]
    ELSE IF Len(entry_points) > 1
    THEN [failed |-> TRUE, name |-> << >>, listed |-> entry_points]
    ELSE [failed |-> FALSE, name |-> entry_points[1], listed |-> << >>]

\* The words of the command lines tried, the bundle file that exists and
\* the bindings it holds.
BundleFile == << "b" >>
BindingF == << "f" >>
BindingG == << "g" >>
ArgvWords ==
    { OptE, OptE \o << "=" >> \o BindingF, OptEntryPoint, OptEntryPointEq \o BindingG,
      << "-", "x" >>, BindingF, BindingG, BundleFile }

\* The entry_points tables tried: get_entry_points answers the rows in order.
EntryPointTables ==
    { << >>, << BindingF >>, << BindingG >>, << BindingF, BindingG >>,
      << BindingG, BindingF >> }

\* The exit code of the process, once it has one.
NoExit == << >>
ExitCode(n) == << n >>

EntryInit ==
    /\ MachineConstructed
    /\ \E argv \in SeqsUpTo(ArgvWords, MaxArgv), table \in EntryPointTables :
          host = [unit |-> "entry", stage |-> "start", argv |-> argv,
                  entry_points |-> table,
                  args |-> ParsedArgs(FALSE, NoEntryPoint, << >>, << >>),
                  entry_point_name |-> << >>, listed |-> << >>, machine |-> FALSE,
                  ran |-> FALSE, raised |-> FALSE, exit |-> NoExit]

\* main 87: parse_args(argc, argv).
ParseArgs ==
    /\ host.unit = "entry" /\ host.stage = "start"
    /\ LET args == parse_args(host.argv, 1, NoEntryPoint)
       IN  host' = [host EXCEPT !.args = args,
                                !.stage = IF args.exited THEN "exited" ELSE "parsed",
                                !.exit = IF args.exited THEN ExitCode(1) ELSE NoExit]
    /\ UNCHANGED MachineVars

\* main 90: the BundleReader opens the bundle file or throws.
OpenBundle ==
    /\ host.unit = "entry" /\ host.stage = "parsed"
    /\ host' = IF host.args.bundle_file = BundleFile
               THEN [host EXCEPT !.stage = "opened"]
               ELSE [host EXCEPT !.stage = "exited", !.raised = TRUE, !.exit = ExitCode(1)]
    /\ UNCHANGED MachineVars

\* main 92-111.
SelectEntryPoint ==
    /\ host.unit = "entry" /\ host.stage = "opened"
    /\ LET s == select_entry_point(host.args, host.entry_points)
       IN  host' = [host EXCEPT !.entry_point_name = s.name,
                                !.listed = s.listed,
                                !.stage = IF s.failed THEN "exited" ELSE "selected",
                                !.exit = IF s.failed THEN ExitCode(1) ELSE NoExit]
    /\ UNCHANGED MachineVars

\* main 114-152: the machine is created, the bindings are loaded and the
\* entry point is executed; an exception of either is caught (154-157).
\* A name that is no binding of the bundle makes get_binding throw.
LoadAndExecute ==
    /\ host.unit = "entry" /\ host.stage = "selected"
    /\ \E raised \in BOOLEAN :
          /\ host.entry_point_name \notin { BindingF, BindingG } => raised
          /\ host' = [host EXCEPT !.machine = TRUE,
                                  !.ran = TRUE,
                                  !.raised = raised,
                                  !.stage = "exited",
                                  !.exit = IF raised THEN ExitCode(1) ELSE ExitCode(0)]
    /\ UNCHANGED MachineVars

EntryNext ==
    \/ ParseArgs
    \/ OpenBundle
    \/ SelectEntryPoint
    \/ LoadAndExecute

EntrySpec == EntryInit /\ [][EntryNext]_vars

\* The options of argv, as the claim reads them: the NAME of the last
\* entry-point option before the bundle file, if there is one.
RECURSIVE OptionNames(_, _)
OptionNames(argv, i) ==
    IF i > Len(argv) THEN << >>
    ELSE IF argv[i] \in { OptE, OptEntryPoint }
    THEN IF i + 1 > Len(argv) THEN << >>
         ELSE << argv[i + 1] >> \o OptionNames(argv, i + 2)
    ELSE IF argv[i] = OptE \o << "=" >> \o BindingF
    THEN << BindingF >> \o OptionNames(argv, i + 1)
    ELSE IF argv[i] = OptEntryPointEq \o BindingG
    THEN << BindingG >> \o OptionNames(argv, i + 1)
    ELSE << >>

\* C24: entry-point selection and exit codes.  Without an option the run
\* uses the one entry point of the bundle, fails with exit code 1 and no
\* machine if there is none, and fails with exit code 1 listing them all if
\* there are several; with an option NAME is used; an error raised yields
\* exit code 1 and a successful run 0.
C24_EntryPointSelection ==
    host.unit = "entry" =>
       LET names == OptionNames(host.argv, 1)
           chosen == host.stage = "selected" \/ host.ran
           selecting == host.stage = "exited" /\ host.args.bundle_file = BundleFile
                        /\ ~host.args.exited /\ ~host.ran
       IN  /\ chosen /\ names # << >> => host.entry_point_name = names[Len(names)]
           /\ chosen /\ names = << >> =>
                 /\ Len(host.entry_points) = 1
                 /\ host.entry_point_name = host.entry_points[1]
           /\ selecting =>
                 /\ names = << >>
                 /\ Len(host.entry_points) # 1
                 /\ host.exit = ExitCode(1)
                 /\ ~host.machine
                 /\ host.listed = IF Len(host.entry_points) > 1 THEN host.entry_points
                                  ELSE << >>
           /\ host.raised => host.exit = ExitCode(1)
           /\ host.ran /\ ~host.raised => host.exit = ExitCode(0)
           /\ host.stage = "exited" <=> host.exit \in { ExitCode(0), ExitCode(1) }
           /\ host.exit = ExitCode(0) => host.ran /\ host.machine

\* The command line --entry-point=g b on a bundle of two entry points ran g
\* to success and exited with 0.
C24_Witness ==
    /\ host.unit = "entry"
    /\ host.argv = << OptEntryPointEq \o BindingG, BundleFile >>
    /\ host.entry_points = << BindingF, BindingG >>
    /\ host.entry_point_name = BindingG
    /\ host.ran /\ host.exit = ExitCode(0)

\* The command line b on a bundle of two entry points: both are listed, no
\* machine is made, the exit code is 1.
C24_ListedWitness ==
    /\ host.unit = "entry"
    /\ host.argv = << BundleFile >>
    /\ host.listed = << BindingF, BindingG >>
    /\ ~host.machine /\ host.exit = ExitCode(1)

(***************************************************************************)
(* Code mutation during execution.                                         *)
(***************************************************************************)
\* The pool cells a step changes (1-based indices of heap_.cells).
CellsWritten == { i \in 1..PoolCells : heap_'.cells[i] # heap_.cells[i] }

\* The Ident operand of the lazy site at a: the cell after the handler word
\* of a PUSH_GLOBAL_LAZY, the second cell after that of a call.
SiteIdentCell(a) ==
    IF planted[a] = "PUSH_GLOBAL_LAZY" THEN heap_.cells[PoolIdx(a + 8)]
    ELSE heap_.cells[PoolIdx(a + 16)]

\* The write of one promotion: the handler word of a site planted lazy, from
\* its lazy label to the strict one, its Ident not lazy, and control back at
\* the site.
PromotionWrite(i) ==
    LET a == PoolAddr(i - 1)
    IN  /\ a \in LazySites
        /\ heap_.cells[i] = LabelAddr(planted[a])
        /\ heap_'.cells[i] = LabelAddr(StrictOf(planted[a]))
        /\ IsIdentAddr(SiteIdentCell(a), Len(idents))
        /\ ~idents[IdentHandle(SiteIdentCell(a))].lazy
        /\ phase' = "run"
        /\ pc' = a
        /\ last'.op = planted[a]
        /\ last'.site = a

CodeWritesConfined ==
    phase = "run" =>
       /\ Cardinality(CellsWritten) <= 1
       /\ \A i \in CellsWritten : PromotionWrite(i)
       /\ heap_'.next_free = heap_.next_free

\* C31: code mutation is confined to lazy-promotion sites.  During
\* execution the only code cells written are handler words of sites planted
\* as PUSH_GLOBAL_LAZY or CALL_GLOBAL_COUNTED_LAZY, each with its own strict
\* counterpart and only when the Ident of the site is not lazy; every other
\* cell stays as it is, and control is back at the handler word of the site.
C31_CodeMutationConfined == [][CodeWritesConfined]_vars

\* A CALL_GLOBAL_COUNTED_LAZY site has been rewritten and is about to be
\* executed again as CALL_GLOBAL_COUNTED.
C31_Witness ==
    /\ phase = "run"
    /\ last.op = "CALL_GLOBAL_COUNTED_LAZY"
    /\ pc = last.site
    /\ pc \in LazySites
    /\ planted[pc] = "CALL_GLOBAL_COUNTED_LAZY"
    /\ Fetch(M, pc) = LabelAddr("CALL_GLOBAL_COUNTED")
    /\ ~idents[last.ident].lazy

(***************************************************************************)
(* Promotion before strict dispatch.                                       *)
(***************************************************************************)
\* The function bindings in the order the loader plants them, and the
\* function objects in the order of their addresses: the heap only grows,
\* so the k-th binding planted owns the k-th function object.
FunctionOrder == SelectSeq(order, LAMBDA n : bundle[n].kind = "function")
FunctionObjects == { o \in objects : o.kind = "function" }
LoadedObject(n) ==
    CHOOSE o \in FunctionObjects :
       \E k \in 1..Len(FunctionOrder) :
          /\ FunctionOrder[k] = n
          /\ Cardinality({ q \in FunctionObjects : q.ptr < o.ptr }) = k - 1

\* The cell the loader installed for the Ident h: the tagged pointer to the
\* function object of its binding.
NameOf(h) == CHOOSE n \in DOMAIN globals_ : globals_[n] = h
InstalledCell(h) == make_tagged_ptr(LoadedObject(NameOf(h)).ptr)

\* The loader's Idents hold the objects LoadedObject names.
LoaderInstalled ==
    phase = "ready" =>
       \A n \in FunctionBindings : idents[globals_[n]].cell = InstalledCell(globals_[n])

\* A strict handler has just run at a site that was planted lazy.
StrictAtLazySite ==
    /\ last.op \in { "PUSH_GLOBAL", "CALL_GLOBAL_COUNTED" }
    /\ last.site \in LazySites
    /\ planted[last.site] \in LazyOps

\* C32: the promotion write precedes the strict dispatch.  A strict handler
\* reached through a site planted lazy for x runs only after a DONE for x
\* has written Ident{x}.cell and cleared Ident{x}.lazy; the site never
\* pushes or calls the thunk pointer the loader installed for x.
C32_PromotionPrecedesStrict ==
    /\ LoaderInstalled
    /\ StrictAtLazySite =>
          /\ last.ident # 0
          /\ last.ident \in evaluated
          /\ ~last.was_lazy
          /\ bundle[NameOf(last.ident)].kind = "function" =>
                /\ last.op = "PUSH_GLOBAL" /\ phase = "run"
                      => Top(operand_stack_) # InstalledCell(last.ident)
                /\ last.op = "CALL_GLOBAL_COUNTED" /\ phase = "run"
                      => last.frame.kind = "none"
                         \/ pc # get_function_code(LoadedObject(NameOf(last.ident)).ptr)

\* The lazy x was evaluated by its thunk, a lazy site for x was rewritten and
\* PUSH_GLOBAL has pushed the value the DONE stored.
C32_Witness ==
    /\ StrictAtLazySite
    /\ last.op = "PUSH_GLOBAL"
    /\ phase = "run"
    /\ last.ident \in evaluated
    /\ bundle[NameOf(last.ident)].lazy
    /\ Top(operand_stack_) = idents[last.ident].cell
    /\ Top(operand_stack_) # InstalledCell(last.ident)

(***************************************************************************)
(* Local variables.                                                        *)
(***************************************************************************)
\* The planter failed on a pop.local that has its index: the handler word
\* of POP_LOCAL is the last word planted.
PopLocalRefused ==
    /\ planter.err
    /\ planter.sites # << >>
    /\ LET site == planter.sites[Len(planter.sites)]
       IN  /\ site.opcode = "POP_LOCAL"
           /\ has_value(site.inst.index)
           /\ value_of(site.inst.index) < planter.nlocals
           /\ Len(planter.code) = site.pos + 1

\* PUSH_LOCAL has run from a planted site whose operand names a local of
\* the frame on top.
AfterPushLocal ==
    /\ last.op = "PUSH_LOCAL"
    /\ last.site \in DOMAIN planted
    /\ LocalOk([rs |-> last.rs], heap_.cells[PoolIdx(last.site + 8)])

\* C33: local write/read round trip.  pop.local and push.local can be
\* planted from binding JSON; POP_LOCAL i stores the popped value in local i
\* and PUSH_LOCAL i pushes the value of local i, the return stack staying as
\* it is.
C33_LocalRoundTrip ==
    /\ ~PopLocalRefused
    /\ AfterPushLocal =>
          /\ operand_stack_ =
                Append(last.os,
                       get_local_variable([rs |-> last.rs],
                                          heap_.cells[PoolIdx(last.site + 8)]))
          /\ return_stack_ = last.rs
          /\ pc = last.site + 16

\* What the code does: the planter refuses every pop.local, and PUSH_LOCAL
\* leaves both stacks alone and dispatches its own operand.
C33_LocalsNotImplemented ==
    /\ \A k \in 1..Len(planter.sites) :
          planter.sites[k].opcode = "POP_LOCAL" => planter.err /\ k = Len(planter.sites)
    /\ \A a \in DOMAIN planted : planted[a] # "POP_LOCAL"
    /\ AfterPushLocal =>
          /\ operand_stack_ = last.os
          /\ return_stack_ = last.rs
          /\ pc = last.site + 8

(***************************************************************************)
(* C34: the snapshot-based argument count of SYSCALL_COUNTED.              *)
(***************************************************************************)
\* The return-stack cell a site's offset operand names.
SiteLocal == LocalIdx([rs |-> last.rs], heap_.cells[PoolIdx(last.site + 8)])

\* A SYSCALL_COUNTED has just run on a local whose snapshot s was taken by
\* a STACK_LENGTH of the same frame, with the stack now at s + k, k >= 0.
SyscallAfterSnapshot ==
    /\ last.op = "SYSCALL_COUNTED"
    /\ last.count # -1
    /\ last.snap[SiteLocal] >= 0
    /\ Len(last.os) >= last.snap[SiteLocal]

SnapshotCount ==
    SyscallAfterSnapshot =>
        /\ last.sys # "none"
        /\ last.count = Len(last.os) - last.snap[SiteLocal]
        /\ M = sys_function([M EXCEPT !.os = last.os, !.phase = "run"], last.sys,
                            Len(last.os) - last.snap[SiteLocal])

\* STACK_LENGTH writes the tagged stack size into its local and nothing else.
StackLengthWritesLocalOnly ==
    (StackLengthStep /\ phase' = "run") =>
        /\ operand_stack_' = operand_stack_
        /\ Len(return_stack_') = Len(return_stack_)
        /\ \E i \in 1..Len(return_stack_) :
              /\ return_stack_'[i] = make_tagged_int(Len(operand_stack_))
              /\ \A j \in 1..Len(return_stack_) :
                    j # i => return_stack_'[j] = return_stack_[j]
        /\ heap_' = heap_
        /\ idents' = idents

\* C34: a SYSCALL_COUNTED o,fn that runs with the operand stack at s + k,
\* k >= 0, after a STACK_LENGTH o of the same frame ran with it at s, calls
\* fn once with arg_count = k (the machine after the site is the machine fn
\* leaves when called with k); and STACK_LENGTH changes its local only: the
\* operand stack, the other return-stack cells, the heap and the Idents
\* stay as they were.
C34_SnapshotCount == []SnapshotCount /\ [][StackLengthWritesLocalOnly]_vars

\* A sys-function was called with two arguments on a stack that held a cell
\* before the snapshot.
C34_Witness ==
    /\ SyscallAfterSnapshot
    /\ last.snap[SiteLocal] = 1
    /\ last.count = 2
    /\ last.sys = "+"
    /\ phase = "run"

(***************************************************************************)
(* SysSpec: a host that pushes cells on a constructed machine and calls    *)
(* the binary integer sys-functions of sys_maths.cpp with an nargs of its  *)
(* choice.                                                                 *)
(***************************************************************************)
MaxSysStack == 3
MaxNargs == 3

SysValues ==
    { make_tagged_int(-3), make_tagged_int(0), make_tagged_int(2), make_tagged_int(7),
      SPECIAL_TRUE, SPECIAL_NIL }

\* What the host keeps of its last call.
SysHost(call, nargs, before, err) ==
    [unit |-> "sys", call |-> call, nargs |-> nargs, before |-> before, err |-> err]

SysInit ==
    /\ MachineConstructed
    /\ host = SysHost("none", 0, << >>, FALSE)

SysPush ==
    /\ host.unit = "sys"
    /\ Len(operand_stack_) < MaxSysStack
    /\ \E value \in SysValues :
          /\ operand_stack_' = Machine_push(operand_stack_, value).cells
          /\ host' = SysHost("none", 0, << >>, FALSE)
    /\ UNCHANGED << bundle, order, phase, li, ii, globals_, idents, heap_, planter,
                    launcher, pc, return_stack_, last, frames, planted, evaluated,
                    objects >>

\* One call of a sys-function on the machine's operand stack.
SysCall(name) ==
    /\ host.unit = "sys"
    /\ \E nargs \in 0 .. MaxNargs :
          LET r == binary_int_operation([os |-> operand_stack_, phase |-> "run"],
                                        nargs, name)
          IN  /\ operand_stack_' = r.os
              /\ host' = SysHost(name, nargs, operand_stack_, r.phase = "error")
    /\ UNCHANGED << bundle, order, phase, li, ii, globals_, idents, heap_, planter,
                    launcher, pc, return_stack_, last, frames, planted, evaluated,
                    objects >>

sys_add == host.unit = "sys" /\ SysCall("+")
sys_subtract == host.unit = "sys" /\ SysCall("-")
sys_multiply == host.unit = "sys" /\ SysCall("*")
sys_divide == host.unit = "sys" /\ SysCall("/")
sys_less_than == host.unit = "sys" /\ SysCall("<")
sys_greater_than == host.unit = "sys" /\ SysCall(">")
sys_less_than_or_equal_to == host.unit = "sys" /\ SysCall("<=")
sys_greater_than_or_equal_to == host.unit = "sys" /\ SysCall(">=")

SysNext ==
    \/ SysPush
    \/ sys_add
    \/ sys_subtract
    \/ sys_multiply
    \/ sys_divide
    \/ sys_less_than
    \/ sys_greater_than
    \/ sys_less_than_or_equal_to
    \/ sys_greater_than_or_equal_to

SysSpec == SysInit /\ [][SysNext]_vars

(***************************************************************************)
(* C35: the binary integer sys-function template.                          *)
(***************************************************************************)
SysCalled == host.unit = "sys" /\ host.call # "none"

\* The operands of the last call: n on top, m below it.
SysN == host.before[Len(host.before)]
SysM == host.before[Len(host.before) - 1]
SysBelow == SubSeq(host.before, 1, Len(host.before) - 2)

\* The cases in which the template raises an error.
SysMustFail ==
    \/ host.nargs # 2
    \/ Len(host.before) < 2
    \/ ~is_tagged_int(SysN)
    \/ ~is_tagged_int(SysM)
    \/ host.call = "/" /\ as_detagged_int(SysN) = 0

\* op(m, n) as a cell.
SysResult == operation(host.call, as_detagged_int(SysM), as_detagged_int(SysN)).cell

\* C35: a call of +, -, *, /, <, >, <= or >= with arg_count = 2 and tagged
\* ints m (below) and n (top) takes one cell off the operand stack, puts
\* op(m, n) where m was and leaves the cells below alone; a call with
\* arg_count # 2, with an operand that is not a tagged int, or a division
\* by 0, raises an error.
C35_BinaryTemplate ==
    SysCalled =>
        IF SysMustFail THEN host.err
        ELSE /\ ~host.err
             /\ operand_stack_ = Append(SysBelow, SysResult)

\* What the code does: the errors are raised as stated and n is popped, but
\* the result is stored into the copy peek() returns, so m stays on top.
C35_ResultDropped ==
    SysCalled =>
        IF SysMustFail THEN host.err
        ELSE /\ ~host.err
             /\ operand_stack_ = Append(SysBelow, SysM)

\* 2 + 7 was called with two arguments.
C35_Called ==
    /\ SysCalled
    /\ host.call = "+"
    /\ host.nargs = 2
    /\ host.before = << make_tagged_int(0), make_tagged_int(2), make_tagged_int(7) >>
    /\ ~host.err

(***************************************************************************)
(* C36: a PUSH_GLOBAL_LAZY site seen from outside, lazy or promoted.       *)
(***************************************************************************)
\* Control has just come back from the thunk a PUSH_GLOBAL_LAZY site entered,
\* and a DONE has realised the site's identifier.
BackFromPushThunk ==
    /\ last.op = "RETURN"
    /\ phase = "run"
    /\ last.frame.kind = "thunk"
    /\ last.frame.op = "PUSH_GLOBAL_LAZY"
    /\ last.frame.ident \in evaluated

\* The strict handler has just run at a site planted as PUSH_GLOBAL_LAZY.
PromotedPush ==
    /\ last.op = "PUSH_GLOBAL"
    /\ phase = "run"
    /\ last.site \in DOMAIN planted
    /\ planted[last.site] = "PUSH_GLOBAL_LAZY"

\* The rewrite of a promoted site: nothing but the handler word and pc moves.
PushRewritten ==
    /\ last.op = "PUSH_GLOBAL_LAZY"
    /\ phase = "run"
    /\ ~last.was_lazy

\* C36: from the entry of a site planted as PUSH_GLOBAL_LAZY for x to the
\* instruction after it, the operand stack grows by exactly one cell, the
\* new top is Ident{x}.cell and the return stack has its size of before: when
\* x is lazy (the thunk runs, a DONE realises x and the thunk returns) and
\* when x is promoted (the rewrite changes neither stack and returns to the
\* site, the strict push follows).
C36_LazyStrictPushAgree ==
    /\ BackFromPushThunk =>
          /\ pc = last.frame.site + 16
          /\ Len(operand_stack_) = Len(last.frame.os_before) + 1
          /\ Top(operand_stack_) = idents[last.frame.ident].cell
          /\ Len(return_stack_) = last.frame.rs_before
    /\ PushRewritten =>
          /\ pc = last.site
          /\ operand_stack_ = last.os
          /\ return_stack_ = last.rs
    /\ PromotedPush =>
          /\ pc = last.site + 16
          /\ Len(operand_stack_) = Len(last.os) + 1
          /\ Top(operand_stack_) = idents[last.ident].cell
          /\ Len(return_stack_) = Len(last.rs)

\* The thunk of x has run to its DONE and returned to the instruction after
\* the PUSH_GLOBAL_LAZY site.
C36_Witness ==
    /\ BackFromPushThunk
    /\ last.frame.os_before = << >>
    /\ Len(operand_stack_) = 1

\* The same site has been executed again with x promoted.
C36_PromotedWitness ==
    /\ PromotedPush
    /\ last.ident \in evaluated
    /\ Len(operand_stack_) = 2

(***************************************************************************)
(* C37: a CALL_GLOBAL_COUNTED_LAZY site seen from outside.                 *)
(***************************************************************************)
\* Control has just come back from the thunk a CALL_GLOBAL_COUNTED_LAZY site
\* entered, and a DONE has realised the site's identifier.
BackFromCallThunk ==
    /\ last.op = "RETURN"
    /\ phase = "run"
    /\ last.frame.kind = "thunk"
    /\ last.frame.op = "CALL_GLOBAL_COUNTED_LAZY"
    /\ last.frame.ident \in evaluated

\* Control has just come back from the strict call made at a site planted
\* as CALL_GLOBAL_COUNTED_LAZY.
BackFromPromotedCall ==
    /\ last.op = "RETURN"
    /\ phase = "run"
    /\ last.frame.kind = "call"
    /\ last.frame.site \in DOMAIN planted
    /\ planted[last.frame.site] = "CALL_GLOBAL_COUNTED_LAZY"

\* The function Ident{x} holds, when its code is a lone RETURN: a strict call
\* of it takes its nparams arguments off the operand stack and adds nothing.
RealisedReturnsAtOnce(h) ==
    /\ is_function_value(heap_, idents[h].cell)
    /\ Fetch(M, get_function_code(as_detagged_ptr(idents[h].cell))) = LabelAddr("RETURN")

\* The operand stack the strict CALL_GLOBAL_COUNTED leaves when it is run on
\* the stack os with x promoted to such a function.
StrictCallLeaves(os, h) ==
    SubSeq(os, 1, Len(os) - get_function_nparams(heap_, as_detagged_ptr(idents[h].cell)))

\* C37: when control reaches the instruction after a CALL_GLOBAL_COUNTED_LAZY
\* site that was entered with x lazy, the thunk has been evaluated and the
\* realised function called, so the operand stack is the one the strict
\* CALL_GLOBAL_COUNTED leaves with x promoted.
C37_LazyStrictCallAgree ==
    (BackFromCallThunk /\ RealisedReturnsAtOnce(last.frame.ident)
        /\ pc = last.frame.site + 24) =>
        operand_stack_ = StrictCallLeaves(last.frame.os_before, last.frame.ident)

\* What the code does: the thunk returns straight to the instruction after
\* the site, the realised function is not called, and the value the DONE left
\* stays on the operand stack above the arguments; the strict call at the
\* same site, once x is promoted, leaves what StrictCallLeaves says.
C37_RealisedNotCalled ==
    /\ BackFromCallThunk =>
          /\ pc = last.frame.site + 24
          /\ operand_stack_ = Append(last.frame.os_before, idents[last.frame.ident].cell)
          /\ Len(return_stack_) = last.frame.rs_before
    /\ (BackFromPromotedCall /\ RealisedReturnsAtOnce(last.frame.ident)) =>
          /\ pc = last.frame.site + 24
          /\ operand_stack_ = StrictCallLeaves(last.frame.os_before, last.frame.ident)

\* Both executions of the same site are reached.
C37_BothReached ==
    /\ BackFromPromotedCall
    /\ RealisedReturnsAtOnce(last.frame.ident)
    /\ last.frame.ident \in evaluated

(***************************************************************************)
(* C38: the control slots of the frames.                                   *)
(***************************************************************************)
\* The handlers that go through get_local_variable.
LocalOps == { "STACK_LENGTH", "CALL_GLOBAL_COUNTED", "DONE", "SYSCALL_COUNTED" }

\* The number of local cells of a frame, and its two control slots.
FrameLocals(f) == IF f.nlocals > f.nparams THEN f.nlocals ELSE f.nparams
FuncSlot(f) == f.rs_before + FrameLocals(f) + 1
ReturnSlot(f) == f.rs_before + FrameLocals(f) + 2

\* The return-stack cell the last handler addressed through its offset operand.
AccessedCell == Len(last.rs) - heap_.cells[PoolIdx(last.site + 8)] + 1

\* The last handler addressed a local from inside a frame.
LocalAccess ==
    /\ last.op \in LocalOps
    /\ InPool(last.site + 8)
    /\ last.nframes > 0
    /\ last.nframes <= Len(frames)

\* The index the offset operand was planted from.
AccessedIndex ==
    frames[last.nframes].nlocals - heap_.cells[PoolIdx(last.site + 8)] + 2

AccessInFrame ==
    /\ phase # "ub"
    /\ AccessedCell > frames[last.nframes].rs_before
    /\ AccessedCell <= frames[last.nframes].rs_before + FrameLocals(frames[last.nframes])

\* A frame that stays on the return stack keeps its two control slots.
SlotsKept ==
    \A k \in 1..Len(frames) :
        (k <= Len(frames') /\ frames'[k] = frames[k] /\ ReturnSlot(frames[k]) <= Len(return_stack_)
         /\ phase' # "ub")
        => /\ ReturnSlot(frames[k]) <= Len(return_stack_')
           /\ return_stack_'[FuncSlot(frames[k])] = return_stack_[FuncSlot(frames[k])]
           /\ return_stack_'[ReturnSlot(frames[k])] = return_stack_[ReturnSlot(frames[k])]

\* C38: whatever indexes the accepted bindings carry, the function-pointer
\* and return-address slots of every frame keep their values until RETURN
\* pops them, and every handler that addresses a local addresses a local
\* slot of the frame that is executing.
C38_ControlSlotsKept ==
    [](LocalAccess => AccessInFrame) /\ [][SlotsKept]_vars

\* What the code guarantees: an index in 0..nlocals-1 addresses a local slot
\* of the executing frame.
C38_InRangeOnly ==
    (LocalAccess /\ 0 <= AccessedIndex /\ AccessedIndex < frames[last.nframes].nlocals
     /\ FrameOnTop(frames[last.nframes], last.rs))
    => AccessInFrame

\* The planter accepted an index outside 0..nlocals-1 and STACK_LENGTH wrote
\* through it into a control slot.
C38_ControlSlotWritten ==
    /\ LocalAccess
    /\ last.op = "STACK_LENGTH"
    /\ phase = "run"
    /\ AccessedCell > frames[last.nframes].rs_before + FrameLocals(frames[last.nframes])

(***************************************************************************)
(* C39: control stays in the function's code.                              *)
(***************************************************************************)
\* The code position a planted jump transfers control to: the cell after
\* its operand plus the operand.
JumpLandsAt(k) == planter.jumps[k].ref + 1 + planter.code[planter.jumps[k].ref + 1]

HandlerPositions == { planter.sites[k].pos : k \in 1..Len(planter.sites) }

PlantedInstructions == bundle[planter.idname].instructions

GuardedCode ==
    LET N == Len(planter.code)
    IN  /\ N >= 1
        /\ planter.code[N] = LabelAddr("HALT")
        /\ planter.sites[Len(planter.sites)].pos = N - 1
        /\ Len(planter.sites) =
              Cardinality({ i \in 1..Len(PlantedInstructions) :
                               PlantedInstructions[i].type # "label" }) + 1
        /\ \A k \in 1..Len(planter.jumps) :
              /\ 0 <= JumpLandsAt(k)
              /\ JumpLandsAt(k) <= N - 1
              /\ JumpLandsAt(k) \in HandlerPositions

\* The code cells of the function object whose code holds address a.
CodeOf(a) ==
    UNION { { get_function_code(o.ptr) + 8 * i : i \in 0..(o.n - 1) } :
              o \in { o \in objects : o.kind = "function"
                                      /\ a >= get_function_code(o.ptr)
                                      /\ a < get_function_code(o.ptr) + 8 * o.n } }

\* The last handler was dispatched from planted code and passed control on
\* in line or by a jump (it entered no frame).
StayedIn(ops) ==
    (phase = "run" /\ last.op \in ops /\ last.site \in DOMAIN planted
     /\ last.frame.kind = "none")
    => pc \in CodeOf(last.site)

\* C39: in every function the planter accepted, of N code words, the last
\* word is the HALT guard, a LABEL has emitted no word (there is one handler
\* word per instruction that is not a LABEL, and the guard), every GOTO and
\* IF_NOT lands on a position t with 0 <= t <= N - 1 that is a handler word;
\* and no in-line handler and no jump takes pc out of the function's code,
\* a jump landing on a handler word.
C39_ControlStaysInCode ==
    /\ Planted => GuardedCode
    /\ StayedIn(InLineOps \cup { "GOTO", "IF_NOT" })
    /\ DispatchAtHandlerWord({ "GOTO", "IF_NOT" })

\* A GOTO has jumped forward to a label that ends the instruction list: pc is
\* on the guard.
C39_Witness ==
    /\ last.op = "GOTO"
    /\ phase = "run"
    /\ last.site \in DOMAIN planted
    /\ pc \in DOMAIN planted
    /\ planted[pc] = "HALT"
    /\ pc > last.site
    /\ pc + 8 \notin CodeOf(last.site)

(***************************************************************************)
(* HeaderSpec: a host that allocates one function object on a constructed  *)
(* machine's heap and reads its header back through the three getters.     *)
(***************************************************************************)
NotAsked == << >>
Asked(n) == << n >>

HeaderHost(nlocals, nparams, obj, nlocals_out, nparams_out, nextras_out) ==
    [unit |-> "header", nlocals |-> nlocals, nparams |-> nparams, obj |-> obj,
     nlocals_out |-> nlocals_out, nparams_out |-> nparams_out,
     nextras_out |-> nextras_out]

HeaderInit ==
    /\ MachineConstructed
    /\ host = HeaderHost(0, 0, 0, NotAsked, NotAsked, NotAsked)

HeaderUnchanged ==
    UNCHANGED << bundle, order, phase, li, ii, globals_, idents, planter, launcher, pc,
                 operand_stack_, return_stack_, last, frames, planted, evaluated, objects >>

\* heap.allocate_function(0, nlocals, nparams) with fields of any value a
\* field can hold.
AllocateFunction ==
    /\ host.unit = "header"
    /\ host.obj = 0
    /\ \E nlocals \in 0..(FieldMod - 1), nparams \in 0..(FieldMod - 1) :
          LET a == Heap_allocate_function(heap_, 0, nlocals, nparams)
          IN  /\ ~a.heap.err
              /\ heap_' = a.heap
              /\ host' = HeaderHost(nlocals, nparams, a.result, NotAsked, NotAsked, NotAsked)
    /\ HeaderUnchanged

GetFunctionNlocals ==
    /\ host.unit = "header"
    /\ host.obj # 0
    /\ host' = [host EXCEPT !.nlocals_out = Asked(get_function_nlocals(heap_, host.obj))]
    /\ heap_' = heap_
    /\ HeaderUnchanged

GetFunctionNparams ==
    /\ host.unit = "header"
    /\ host.obj # 0
    /\ host' = [host EXCEPT !.nparams_out = Asked(get_function_nparams(heap_, host.obj))]
    /\ heap_' = heap_
    /\ HeaderUnchanged

GetFunctionNextras ==
    /\ host.unit = "header"
    /\ host.obj # 0
    /\ host' = [host EXCEPT !.nextras_out = Asked(get_function_nextras(heap_, host.obj))]
    /\ heap_' = heap_
    /\ HeaderUnchanged

HeaderNext ==
    \/ AllocateFunction
    \/ GetFunctionNlocals
    \/ GetFunctionNparams
    \/ GetFunctionNextras

HeaderSpec == HeaderInit /\ [][HeaderNext]_vars

(***************************************************************************)
(* C40: the header packing round trip.                                     *)
(***************************************************************************)
\* The packed word of the allocated function object.
PackedWord == heap_.cells[PoolIdx(host.obj + 8)]

\* Field k (0: lowest) of a cell.
Field(w, k) == (w \div (FieldMod ^ k)) % FieldMod

HeaderAllocated ==
    /\ host.unit = "header"
    /\ host.obj # 0
    /\ host.nparams <= host.nlocals

====
